---- MODULE Spec2Model ----
(***************************************************************************)
(* Model of the support-core service: the AI-first intake pipeline         *)
(* (app/api/v1/support.py, app/services/support_ai_engine.py) and the      *)
(* onboarding lifecycle (app/services/onboarding_service.py) over the      *)
(* relational store.  Confidences are fixed-point numbers in millionths    *)
(* (0.78 is 780000); floating-point rounding of the sums is not modelled.  *)
(* Time is counted in ticks of 24 hours.                                   *)
(***************************************************************************)
EXTENDS Integers, Sequences, FiniteSets, TLC

(* ------------------------------ bounds --------------------------------- *)
\* intake requests explored per behaviour with the full input space
MaxRequests == 2
\* intake requests explored per behaviour with the repeated-message inputs
MaxRepeats == 3
\* intake requests explored per behaviour over the boost inputs
MaxScoreRequests == 1
\* intake requests explored per behaviour over the case inputs
MaxCaseRequests == 3
\* intake requests explored per behaviour when the store may become unavailable
MaxFaultRequests == 1
\* clock ticks explored
MaxTime == 2
\* audit events written per behaviour by the onboarding operations
MaxAuditEvents == 5
\* pauses per behaviour where a whole onboarding is followed
MaxPauses == 1
\* callers whose calls run concurrently
MaxCallers == 2
\* cases opened per behaviour where their SLA is followed
MaxSlaCases == 1
\* tier changes per behaviour where the SLA of cases is followed
MaxTierChanges == 2
MaxSlaTierChanges == 1
\* audit events written per behaviour by the operations on a case
MaxCaseEvents == 4
\* documents a KB search may return to retrieve_context
MaxKbHits == 4
\* steps the model may put in its answer
MaxSteps == 4
MaxSlaEvents == 3
MaxDocs == 2
MaxRevisions == 6

(* ------------------------- program constants --------------------------- *)
Scale == 1000000
AutoResolveMin == 780000
FollowUpMin == 450000
EscalateBelow == 450000
CaseNewMin == 450000
KbSkipBelow == 750000
KbUpdateAbove == 850
KbVariantMin == 600
BoostPerItem == 50000
BoostCap == 3
ConfidenceCap == 1000000
PrefixLen == 50
WindowTicks == 1
TickMinutes == 1440
NinetyDaysTicks == 90
PriorCaseLimit == 3
PriorCaseMinConfidence == 700000
ContextTop == 6
TrainHighConfidence == 850000
CaseBranchCommits == 5

None == "none"
\* the id of no row (row ids start at 1)
NoId == 0
\* the value of a timestamp column that is not set
NoTime == 0 - 1

Min(a, b) == IF a < b THEN a ELSE b

Urgencies == {"low", "normal", "high", "critical"}
PlanTiers == {"tier0", "tier1", "tier2"}
Priorities == {"low", "normal", "high", "critical"}

(* ------------------------------ the store ------------------------------ *)
VARIABLES
    tenants,       \* set of Tenant rows
    identities,    \* set of Identity rows
    aiLogs,        \* SupportAILog rows, in insertion order (id = position)
    cases,         \* Case rows, in insertion order (id = position)
    caseMessages,  \* CaseMessage rows
    aiArtifacts,   \* AIArtifact rows
    slaPolicies,   \* set of SLAPolicy rows
    slaEvents,     \* SLAEvent rows, in insertion order
    auditEvents,   \* AuditEvent rows, in insertion order
    entitlements,  \* set of TenantEntitlement rows
    onbSessions,   \* set of OnboardingSession rows
    onbSteps,      \* set of OnboardingStep rows
    kbIndex,       \* set of KBArticleIndex rows
    kbRevisions,   \* KBArticleRevision rows, in insertion order
    kbDecisions,   \* KBDecisionLog rows, in insertion order
    kbQuality,     \* KBQualityScore rows, in insertion order
    now,           \* the clock, in ticks
    nreq,          \* requests handled so far
    history,       \* the intake requests handled so far: tenant, message, time
    last,          \* the last request handled: its inputs and its response
    calls          \* the calls in progress, per concurrent caller

vars == <<tenants, identities, aiLogs, cases, caseMessages, aiArtifacts,
          slaPolicies, slaEvents, auditEvents, entitlements, onbSessions,
          onbSteps, kbIndex, kbRevisions, kbDecisions, kbQuality, now, nreq, history, last, calls>>

intakeVars == <<tenants, identities, aiLogs, cases, caseMessages, aiArtifacts,
                slaEvents, auditEvents, kbIndex, kbRevisions, kbDecisions, kbQuality>>
onboardingVars == <<slaPolicies, entitlements, onbSessions, onbSteps>>

(* ------------------------ strings of the requests ---------------------- *)
\* user_id values of requests: e-mail addresses, one of them in two letter
\* cases and one at a subdomain, and a bare user id
UserIds == {"ann@acme.com", "Bob@Other.org", "bob@other.org", "eve@mail.acme.com",
            "user42"}

\* str.lower() on the user ids
LowerOf == [u \in UserIds |->
    CASE u = "ann@acme.com" -> "ann@acme.com"
      [] u = "Bob@Other.org" -> "bob@other.org"
      [] u = "bob@other.org" -> "bob@other.org"
      [] u = "eve@mail.acme.com" -> "eve@mail.acme.com"
      [] u = "user42" -> "user42"]

\* email.split("@")[-1].lower() if "@" in email else None
DomainOf == [u \in UserIds |->
    CASE u = "ann@acme.com" -> "acme.com"
      [] u = "Bob@Other.org" -> "other.org"
      [] u = "bob@other.org" -> "other.org"
      [] u = "eve@mail.acme.com" -> "mail.acme.com"
      [] u = "user42" -> None]

RECURSIVE Rep(_, _)
Rep(c, n) == IF n = 0 THEN <<>> ELSE <<c>> \o Rep(c, n - 1)

\* the texts of the messages: A and B differ after a common 50-character
\* prefix, C holds A after one extra leading character, D is short
MessageNames == {"A", "B", "C", "D"}
MessageText == [m \in MessageNames |->
    CASE m = "A" -> Rep("a", 50) \o <<"x">>
      [] m = "B" -> Rep("a", 50) \o <<"y">>
      [] m = "C" -> <<"z">> \o Rep("a", 50) \o <<"x">>
      [] m = "D" -> <<"h", "i">>]

\* s[:n]
Prefix(s, n) == SubSeq(s, 1, Min(n, Len(s)))

\* s LIKE '%p%' for a pattern p without wildcard characters
Contains(s, p) ==
    \E i \in 0..(Len(s) - Len(p)) : SubSeq(s, i + 1, i + Len(p)) = p

\* SupportAILog.message.like(f"%{request.message[:50]}%"), per logged
\* message (first argument) and request message (second argument)
Like == [m \in MessageNames |-> [q \in MessageNames |->
    Contains(MessageText[m], Prefix(MessageText[q], PrefixLen))]]

(* ------------------------------ tenants -------------------------------- *)
ProspectIds == <<"p1", "p2", "p3">>

TenantById(tid) == {t \in tenants : t.id = tid}

\* .first() of a query with at least one row
First(rows) == CHOOSE r \in rows : TRUE

\* resolve_tenant_by_domain: the rows matched (no row: None is returned)
resolve_tenant_by_domain(email) ==
    IF DomainOf[email] = None THEN {}
    ELSE {t \in tenants : t.primary_domain = DomainOf[email]}

ProspectTenants == {t \in tenants : t.name = "Prospect"}

NewProspect ==
    [id |-> ProspectIds[Cardinality(ProspectTenants) + 1], name |-> "Prospect",
     primary_domain |-> None, plan_tier |-> "tier0"]

\* get_or_create_prospect_tenant without the query by name
get_or_create_prospect_tenant_always_new == NewProspect

\* get_or_create_prospect_tenant: the tenant returned
get_or_create_prospect_tenant ==
    IF ProspectTenants # {} THEN First(ProspectTenants) ELSE NewProspect

\* get_tenant_tier over the rows of the tenant table
get_tenant_tier(rows, tid) ==
    LET found == {t \in rows : t.id = tid}
    IN IF found # {} THEN First(found).plan_tier ELSE "tier0"

\* get_or_create_identity: the identity returned
get_or_create_identity(tid, email) ==
    LET found == {i \in identities : i.tenant_id = tid /\ i.email = LowerOf[email]}
    IN IF found # {} THEN First(found)
       ELSE [id |-> Cardinality(identities) + 1, tenant_id |-> tid,
             email |-> LowerOf[email]]

(* ------------------------------- SLA ----------------------------------- *)
get_sla_policy(tid, tier) ==
    {p \in slaPolicies : p.tenant_id = tid /\ p.tier = tier}

get_default_sla_policy(tier) ==
    CASE tier = "tier0" -> [first_response |-> 1440, resolution |-> 4320]
      [] tier = "tier1" -> [first_response |-> 240, resolution |-> 1440]
      [] tier = "tier2" -> [first_response |-> 60, resolution |-> 480]
      [] OTHER -> [first_response |-> 1440, resolution |-> 4320]

\* start_sla_tracking that never reads the tenant's policy
start_sla_tracking_defaults_only(case_id, tid, tier) ==
    [case_id |-> case_id, event_type |-> "started",
     first_response_minutes |-> get_default_sla_policy(tier).first_response,
     resolution_minutes |-> get_default_sla_policy(tier).resolution,
     created_at |-> now]

\* start_sla_tracking: the STARTED event written for a case of a tenant
\* whose tier is `tier`
start_sla_tracking(case_id, tid, tier) ==
    LET policy == get_sla_policy(tid, tier)
        defaults == get_default_sla_policy(tier)
    IN [case_id |-> case_id, event_type |-> "started",
        first_response_minutes |->
            IF policy = {} THEN defaults.first_response
            ELSE First(policy).first_response_minutes,
        resolution_minutes |->
            IF policy = {} THEN defaults.resolution
            ELSE First(policy).resolution_minutes,
        created_at |-> now]

\* start_sla_tracking called with a case id: nothing is written when the
\* case does not exist
start_sla_tracking_of_case(case_id) ==
    IF case_id \notin DOMAIN cases
    THEN /\ last' = [op |-> "start_sla_tracking", case_id |-> case_id, found |-> FALSE]
         /\ UNCHANGED <<intakeVars, onboardingVars, now, nreq, history, calls>>
    ELSE
    LET case == cases[case_id]
        tier == get_tenant_tier(tenants, case.tenant_id)
    IN
    /\ slaEvents' = Append(slaEvents, start_sla_tracking(case_id, case.tenant_id, tier))
    /\ last' = [op |-> "start_sla_tracking", case_id |-> case_id, found |-> TRUE]
    /\ UNCHANGED <<tenants, identities, aiLogs, cases, caseMessages, aiArtifacts,
                   auditEvents, kbIndex, kbRevisions, kbDecisions, kbQuality,
                   onboardingVars, now, nreq, history, calls>>

\* the breach events of a case that are logged already
breach_types_logged_none(case_id) == {}

breach_types_logged(case_id) ==
    {slaEvents[i].event_type :
        i \in {j \in DOMAIN slaEvents :
                 /\ slaEvents[j].case_id = case_id
                 /\ slaEvents[j].event_type \in {"breached_first_response",
                                                 "breached_resolution"}}}

\* a breach event of a case
BreachEvent(case_id, event_type) ==
    [case_id |-> case_id, event_type |-> event_type, first_response_minutes |-> NoId,
     resolution_minutes |-> NoId, created_at |-> now]

\* check_sla_breaches
check_sla_breaches(case_id) ==
    IF case_id \notin DOMAIN cases
    THEN /\ last' = [op |-> "check_sla_breaches", case_id |-> case_id, found |-> FALSE,
                     at |-> now,
                     breached_first_response |-> FALSE, breached_resolution |-> FALSE]
         /\ UNCHANGED <<intakeVars, onboardingVars, now, nreq, history, calls>>
    ELSE
    LET case == cases[case_id]
        tier == get_tenant_tier(tenants, case.tenant_id)
        policy == get_sla_policy(case.tenant_id, tier)
        defaults == get_default_sla_policy(tier)
        first_response_minutes == IF policy = {} THEN defaults.first_response
                                  ELSE First(policy).first_response_minutes
        resolution_minutes == IF policy = {} THEN defaults.resolution
                              ELSE First(policy).resolution_minutes
        case_age == (now - case.created_at) * TickMinutes
        breached_first_response == case_age > first_response_minutes
        breached_resolution == case_age > resolution_minutes
        logged == breach_types_logged(case_id)
        events1 == IF breached_first_response /\ "breached_first_response" \notin logged
                   THEN Append(slaEvents, BreachEvent(case_id, "breached_first_response"))
                   ELSE slaEvents
        events2 == IF breached_resolution /\ "breached_resolution" \notin logged
                   THEN Append(events1, BreachEvent(case_id, "breached_resolution"))
                   ELSE events1
    IN
    /\ slaEvents' = events2
    /\ last' = [op |-> "check_sla_breaches", case_id |-> case_id, found |-> TRUE,
                at |-> now,
                breached_first_response |-> breached_first_response,
                breached_resolution |-> breached_resolution]
    /\ UNCHANGED <<tenants, identities, aiLogs, cases, caseMessages, aiArtifacts,
                   auditEvents, kbIndex, kbRevisions, kbDecisions, kbQuality,
                   onboardingVars, now, nreq, history, calls>>

\* the null that is reported for a case that has a breach event
NoRemaining == 0 - 1

\* the remaining-time percentage of a case that is age_minutes old under a
\* budget of resolution_minutes, in thousandths of a percent
sla_remaining(resolution_minutes, age_minutes) ==
    IF age_minutes < resolution_minutes
    THEN ((resolution_minutes - age_minutes) * 100000) \div resolution_minutes
    ELSE 0

\* get_ops_case: the SLA part of the case details of the ops center (the
\* list endpoint get_ops_cases computes the same per case)
get_ops_case(case_id) ==
    IF case_id \notin DOMAIN cases
    THEN /\ last' = [op |-> "get_ops_case", kind |-> "404", case_id |-> case_id]
         /\ UNCHANGED <<intakeVars, onboardingVars, now, nreq, history, calls>>
    ELSE
    LET case == cases[case_id]
        sla_breached == breach_types_logged(case_id) # {}
        tier == get_tenant_tier(tenants, case.tenant_id)
        policy == get_sla_policy(case.tenant_id, tier)
        defaults == get_default_sla_policy(tier)
        resolution_minutes == IF policy = {} THEN defaults.resolution
                              ELSE First(policy).resolution_minutes
        age_minutes == (now - case.created_at) * TickMinutes
    IN
    /\ last' = [op |-> "get_ops_case", kind |-> "ok", case_id |-> case_id,
                sla_breached |-> sla_breached, age_minutes |-> age_minutes,
                sla_remaining |-> IF sla_breached THEN NoRemaining
                                  ELSE sla_remaining(resolution_minutes, age_minutes)]
    /\ UNCHANGED <<intakeVars, onboardingVars, now, nreq, history, calls>>

\* get_db: the request's session is closed when the handler ends; rows that
\* were added to it and never committed are discarded
get_db(committed, pending) == committed

\* log_audit_event: the row written (tenant_id and detail stand for the payload)
log_audit_event(event_type, case_id, tid, detail) ==
    [event_type |-> event_type, case_id |-> case_id, tenant_id |-> tid,
     detail |-> detail]

(* --------------------------- the AI engine ----------------------------- *)
\* AIClient.classify_intent: the normalised answer of the gateway, or the
\* fallback when the call fails
classify_intent(cls) ==
    IF cls.ok
    THEN [urgency |-> cls.urgency, compliance_flag |-> cls.compliance_flag,
          model_used |-> "gateway"]
    ELSE [urgency |-> "normal", compliance_flag |-> TRUE, model_used |-> "fallback"]

\* the prior resolved cases retrieve_context adds to the KB hits
PriorCaseDocs(tid) ==
    LET hits == {i \in DOMAIN cases :
                    /\ cases[i].tenant_id = tid
                    /\ cases[i].status \in {"resolved", "closed"}
                    /\ cases[i].created_at >= now - NinetyDaysTicks
                    /\ cases[i].ai_confidence >= PriorCaseMinConfidence}
        withSummary == {i \in hits : \E j \in DOMAIN aiArtifacts :
                           /\ aiArtifacts[j].case_id = i
                           /\ aiArtifacts[j].artifact_type = "summary"}
    IN Cardinality(withSummary)

\* retrieve_context: the number of context documents (every one of them has a
\* url or a case id); kbHits = 0 also stands for a failed KB search
retrieve_context(tid, kbHits) == kbHits + Min(PriorCaseDocs(tid), PriorCaseLimit)

\* _generate_tier0_resolution
generate_tier0_resolution(contextLen, gen) ==
    IF gen.ok
    THEN [confidence |-> gen.confidence, citations |-> Min(contextLen, ContextTop),
          steps |-> gen.steps, follow_up_needed |-> gen.needs_clarification]
    ELSE [confidence |-> 0, citations |-> 0, steps |-> 0, follow_up_needed |-> FALSE]

\* _generate_tier1_escalation_analysis
generate_tier1_escalation_analysis(contextLen, gen) ==
    IF gen.ok
    THEN [confidence |-> gen.confidence, citations |-> 0, steps |-> 0,
          follow_up_needed |-> FALSE]
    ELSE [confidence |-> 0, citations |-> 0, steps |-> 0, follow_up_needed |-> FALSE]

generate_resolution(contextLen, tier_level, gen) ==
    IF tier_level = 0 THEN generate_tier0_resolution(contextLen, gen)
    ELSE generate_tier1_escalation_analysis(contextLen, gen)

\* score_confidence with the boost of the steps left out
score_confidence_citations_only(response) ==
    Min(IF response.citations > 0
        THEN response.confidence + BoostPerItem * Min(response.citations, BoostCap)
        ELSE response.confidence, ConfidenceCap)

score_confidence(response) ==
    LET b1 == IF response.citations > 0
              THEN response.confidence + BoostPerItem * Min(response.citations, BoostCap)
              ELSE response.confidence
        b2 == IF response.steps > 0
              THEN b1 + BoostPerItem * Min(response.steps, BoostCap)
              ELSE b1
    IN Min(b2, ConfidenceCap)

should_escalate(confidence, attempts, user_rejected) ==
    IF user_rejected THEN TRUE
    ELSE IF confidence < EscalateBelow THEN TRUE
    ELSE IF attempts > 2 THEN TRUE
    ELSE FALSE

\* the count of previous attempts of intake_request
previous_attempts(tid, msg) ==
    Cardinality({i \in DOMAIN aiLogs :
        /\ aiLogs[i].tenant_id = tid
        /\ Like[aiLogs[i].message][msg]
        /\ aiLogs[i].created_at >= now - WindowTicks})

\* the decision of intake_request: the branch taken
decision_branch(final_confidence, attempt_number) ==
    IF final_confidence >= AutoResolveMin
       /\ ~should_escalate(final_confidence, attempt_number, FALSE)
    THEN "auto_resolve"
    ELSE IF final_confidence >= FollowUpMin /\ final_confidence < AutoResolveMin
    THEN "follow_up"
    ELSE "escalate"

priority_values == [p \in Priorities |->
    CASE p = "low" -> 0 [] p = "normal" -> 1 [] p = "high" -> 2 [] p = "critical" -> 3]

\* case_priority without the override
case_priority_as_requested(priority_requested, urgency) == priority_requested

\* the priority of the case: the requested one, overridden by the urgency
\* of the classification when that is higher
case_priority(priority_requested, urgency) ==
    IF priority_values[urgency] > priority_values[priority_requested]
    THEN urgency ELSE priority_requested

\* the tier route of the case
case_tier_route(tier, urgency, compliance_flag) ==
    IF urgency = "critical" \/ compliance_flag THEN 2
    ELSE IF tier = "tier2" THEN 2 ELSE 1

\* the guard under which the case is created on the escalation branch
case_created_guard(urgency, compliance_flag) ==
    urgency = "critical" \/ compliance_flag

\* the status of the case
case_status(final_confidence) ==
    IF final_confidence >= CaseNewMin THEN "new" ELSE "escalated"

tier_level_of(tier) == IF tier = "tier0" THEN 0 ELSE IF tier = "tier1" THEN 1 ELSE 2

(* --------------------------- the KB agent ------------------------------ *)
DocIds == <<"d1", "d2", "d3", "d4", "d5">>

\* the words of a title: set(text.split())
Words(title) == {title[i] : i \in DOMAIN title}

\* _calculate_text_similarity, in thousandths
calculate_text_similarity(text1, text2) ==
    IF Len(text1) = 0 \/ Len(text2) = 0 THEN 0
    ELSE (Cardinality(Words(text1) \cap Words(text2)) * 1000)
            \div Cardinality(Words(text1) \cup Words(text2))

\* candidates.sort(key=similarity, reverse=True): a stable insertion
RECURSIVE SortBySimilarity(_)
SortBySimilarity(candidates) ==
    IF Len(candidates) <= 1 THEN candidates
    ELSE LET rest == SortBySimilarity(Tail(candidates))
             x == Head(candidates)
             before == {i \in DOMAIN rest : rest[i].similarity > x.similarity}
             k == Cardinality(before)
         IN SubSeq(rest, 1, k) \o <<x>> \o SubSeq(rest, k + 1, Len(rest))

\* the candidates find_similar_articles returns for the titles Outline found
find_similar_articles(issue_title, titles) ==
    SortBySimilarity([i \in DOMAIN titles |->
        [outline_document_id |-> "ext", title |-> titles[i],
         similarity |-> calculate_text_similarity(issue_title, titles[i])]])

\* decide_update_or_create that updates above the higher threshold only
decide_update_or_create_high_only(candidates, ai_confidence) ==
    IF ai_confidence < KbSkipBelow THEN "skip"
    ELSE IF Len(candidates) = 0 THEN "create"
    ELSE IF candidates[1].similarity > KbUpdateAbove THEN "update"
    ELSE "create"

\* decide_update_or_create; candidates is the sorted list of similarities
\* (in thousandths) of the candidates
decide_update_or_create(candidates, ai_confidence) ==
    IF ai_confidence < KbSkipBelow THEN "skip"
    ELSE IF Len(candidates) = 0 THEN "create"
    ELSE IF candidates[1].similarity > KbUpdateAbove THEN "update"
    ELSE IF candidates[1].similarity >= KbVariantMin THEN "update"
    ELSE "create"

\* the revision numbers a document has
RevisionNumbers(doc) ==
    {kbRevisions[i].revision_number : i \in
        {j \in DOMAIN kbRevisions : kbRevisions[j].outline_document_id = doc}}

\* the first revision taken for the latest one
EarliestRevision(doc) ==
    IF RevisionNumbers(doc) = {} THEN 0
    ELSE CHOOSE n \in RevisionNumbers(doc) : \A m \in RevisionNumbers(doc) : n <= m

LatestRevision(doc) ==
    LET nums == {kbRevisions[i].revision_number : i \in
                    {j \in DOMAIN kbRevisions : kbRevisions[j].outline_document_id = doc}}
    IN IF nums = {} THEN 0 ELSE CHOOSE n \in nums : \A m \in nums : m <= n

\* the id Outline gives the next document it creates
NextDocId == DocIds[Cardinality(kbIndex) + 1]

IndexedDocs == {a.outline_document_id : a \in kbIndex}

kbFrame == <<tenants, identities, aiLogs, cases, caseMessages, aiArtifacts,
             slaEvents, auditEvents, kbDecisions, kbQuality, onboardingVars, now,
             nreq, history, calls>>

\* create_article; created tells whether Outline created the document; the
\* record keeps the publish flag of the request sent to Outline
create_article(created) ==
    IF ~created
    THEN /\ last' = [op |-> "create_article", kind |-> "false", document_id |-> None,
                     kb_created |-> created, publish |-> FALSE]
         /\ UNCHANGED <<kbIndex, kbRevisions, kbFrame>>
    ELSE /\ kbIndex' = kbIndex \cup {[outline_document_id |-> NextDocId,
                                       is_active |-> TRUE]}
         /\ kbRevisions' = Append(kbRevisions, [outline_document_id |-> NextDocId,
                                                revision_number |-> 1])
         /\ last' = [op |-> "create_article", kind |-> "true",
                     document_id |-> NextDocId,
                     kb_created |-> created, publish |-> FALSE]
         /\ UNCHANGED kbFrame

\* update_article that does not look the document up in the index: a
\* document without revisions gets revision 1
update_article_unindexed(existing_doc_id) ==
    /\ kbRevisions' = Append(kbRevisions,
                             [outline_document_id |-> existing_doc_id,
                              revision_number |->
                                  IF existing_doc_id \in IndexedDocs
                                  THEN LatestRevision(existing_doc_id) + 1 ELSE 1])
    /\ last' = [op |-> "update_article", kind |-> "true",
                document_id |-> existing_doc_id]
    /\ UNCHANGED <<kbIndex, kbFrame>>

\* update_article
update_article(existing_doc_id) ==
    IF existing_doc_id \notin IndexedDocs
    THEN /\ last' = [op |-> "update_article", kind |-> "false",
                     document_id |-> existing_doc_id]
         /\ UNCHANGED <<kbIndex, kbRevisions, kbFrame>>
    ELSE /\ kbRevisions' = Append(kbRevisions,
                                  [outline_document_id |-> existing_doc_id,
                                   revision_number |->
                                       LatestRevision(existing_doc_id) + 1])
         /\ last' = [op |-> "update_article", kind |-> "true",
                     document_id |-> existing_doc_id]
         /\ UNCHANGED <<kbIndex, kbFrame>>

\* the KB workflow of the auto-resolve branch: the rows it leaves behind.
\* kb.candidates is what find_similar_articles returns, kb.create_ok whether
\* Outline creates the document, kb.needs_review the verdict of the evaluator.
KbWorkflow(kb, final_confidence, log_id) ==
    LET decision == decide_update_or_create(kb.candidates, final_confidence)
        best == kb.candidates[1]
        created == decision = "create" /\ kb.create_ok
        updated == /\ decision = "update"
                   /\ best.outline_document_id \in IndexedDocs
        doc == IF created THEN NextDocId
               ELSE IF updated THEN best.outline_document_id ELSE None
    IN [decisions |-> Append(kbDecisions,
            [support_log_id |-> IF Len(kb.candidates) > 0 THEN log_id ELSE NoId,
             decision |-> decision]),
        index |-> IF created
                  THEN kbIndex \cup {[outline_document_id |-> doc, is_active |-> TRUE]}
                  ELSE kbIndex,
        revisions |->
            IF created
            THEN Append(kbRevisions, [outline_document_id |-> doc, revision_number |-> 1])
            ELSE IF updated
            THEN Append(kbRevisions, [outline_document_id |-> doc,
                                      revision_number |-> LatestRevision(doc) + 1])
            ELSE kbRevisions,
        \* the update branch stops at the name KBArticleIndex, which
        \* support.py does not import: no quality score is stored for it
        quality |-> IF created
                    THEN Append(kbQuality, [outline_document_id |-> doc,
                                            needs_review |-> kb.needs_review,
                                            reviewed |-> FALSE])
                    ELSE kbQuality,
        kb_document_id |-> doc]

NoKb == [candidates |-> <<>>, create_ok |-> FALSE, needs_review |-> FALSE]

(* -------------------------- the training dataset ----------------------- *)
\* the local variable quality_score of build_training_batch before its first
\* assignment, and after a query without row
Unbound == 0 - 2
NoScore == 0 - 1

\* the filter of the query of build_training_batch
Selectable(log, min_confidence) ==
    /\ log.resolved
    /\ ~log.used_in_training
    /\ log.confidence >= min_confidence
    /\ \/ log.helpful = "true"
       \/ log.helpful = "none" /\ log.confidence >= TrainHighConfidence

\* the orders in which the store may return a set of rows
Orders(rows) ==
    {f \in [1..Cardinality(rows) -> rows] :
        \A i, j \in 1..Cardinality(rows) : i # j => f[i] # f[j]}

\* the latest reviewed score of a document that needs no review, NoScore
\* when there is none
LatestReviewedScore(doc) ==
    LET rows == {i \in DOMAIN kbQuality :
                    /\ kbQuality[i].outline_document_id = doc
                    /\ ~kbQuality[i].needs_review
                    /\ kbQuality[i].reviewed}
    IN IF rows = {} THEN NoScore
       ELSE kbQuality[CHOOSE i \in rows : \A j \in rows : j <= i].overall_score

\* the loop of build_training_batch over the rows selected: quality_score is
\* assigned only for a log with a document, and read for every log kept
RECURSIVE BatchLoop(_, _, _, _)
BatchLoop(ids, quality_score, examples, min_quality_score) ==
    IF ids = <<>> THEN [kind |-> "ok", ids |-> examples]
    ELSE LET log == aiLogs[Head(ids)]
             score == IF log.kb_document_id # None
                      THEN LatestReviewedScore(log.kb_document_id)
                      ELSE quality_score
         IN IF log.kb_document_id # None /\ score >= 0 /\ score < min_quality_score
            THEN BatchLoop(Tail(ids), score, examples, min_quality_score)
            ELSE IF score = Unbound
            THEN [kind |-> "error", ids |-> <<>>]   \* UnboundLocalError
            ELSE BatchLoop(Tail(ids), score, Append(examples, Head(ids)),
                           min_quality_score)

\* build_training_batch, the store returning the rows in the order `order`
build_training_batch(limit, min_confidence, min_quality_score, order) ==
    LET logs == SubSeq(order, 1, Min(limit, Len(order)))
        batch == BatchLoop(logs, Unbound, <<>>, min_quality_score)
    IN /\ last' = [op |-> "build_training_batch", kind |-> batch.kind,
                   ids |-> batch.ids, limit |-> limit,
                   min_confidence |-> min_confidence,
                   min_quality_score |-> min_quality_score]
       /\ UNCHANGED <<intakeVars, onboardingVars, now, nreq, history, calls>>

\* mark_used_for_training that marks every log
mark_used_for_training_all(log_ids) ==
    /\ aiLogs' = [i \in DOMAIN aiLogs |-> [aiLogs[i] EXCEPT !.used_in_training = TRUE]]
    /\ last' = [op |-> "mark_used_for_training", kind |-> "ok", ids |-> log_ids]
    /\ UNCHANGED <<tenants, identities, cases, caseMessages, aiArtifacts, slaEvents,
                   auditEvents, kbIndex, kbRevisions, kbDecisions, kbQuality,
                   onboardingVars, now, nreq, history, calls>>

\* mark_used_for_training
mark_used_for_training(log_ids) ==
    /\ aiLogs' = [i \in DOMAIN aiLogs |->
                    IF aiLogs[i].id \in log_ids
                    THEN [aiLogs[i] EXCEPT !.used_in_training = TRUE]
                    ELSE aiLogs[i]]
    /\ last' = [op |-> "mark_used_for_training", kind |-> "ok", ids |-> log_ids]
    /\ UNCHANGED <<tenants, identities, cases, caseMessages, aiArtifacts, slaEvents,
                   auditEvents, kbIndex, kbRevisions, kbDecisions, kbQuality,
                   onboardingVars, now, nreq, history, calls>>

(* ----------------------------- intake_request -------------------------- *)
\* POST /intakeRequest.  tid/user/msg/priority_requested are the request;
\* cls, kbHits and gen are what the AI gateway and Outline answer to the
\* pipeline, kbs what they may answer to the KB workflow of the auto-resolve
\* branch; a failAt = k > 0 of fails makes the k-th commit of the case branch
\* fail (the store is unavailable), failAt = 0 is a run without failure.
intake_request(tid, user, msg, priority_requested, cls, kbHits, gen, kbs, fails) ==
    IF tid # None /\ TenantById(tid) = {}
    THEN \* 404 Tenant not found
         /\ last' = [op |-> "intake_request", kind |-> "not_found", tenant_id |-> tid]
         /\ nreq' = nreq + 1
         /\ UNCHANGED <<intakeVars, onboardingVars, now, calls, history>>
    ELSE
    LET byDomain == resolve_tenant_by_domain(user)
        tenant == IF tid # None THEN First(TenantById(tid))
                  ELSE IF byDomain # {} THEN First(byDomain)
                  ELSE get_or_create_prospect_tenant
        tenants1 == tenants \cup {tenant}
        tier == get_tenant_tier(tenants1, tenant.id)
        tier_level == tier_level_of(tier)
        identity == get_or_create_identity(tenant.id, user)
        classification == classify_intent(cls)
        contextLen == retrieve_context(tenant.id, kbHits)
        resolution == generate_resolution(contextLen, tier_level, gen)
        final_confidence == score_confidence(resolution)
        attempt_number == previous_attempts(tenant.id, msg) + 1
        branch == decision_branch(final_confidence, attempt_number)
        log_id == Len(aiLogs) + 1
        case_id == Len(cases) + 1
        ai_log == [id |-> log_id, tenant_id |-> tenant.id, case_id |-> NoId,
                   message |-> msg, confidence |-> final_confidence,
                   resolved |-> FALSE,
                   follow_up_flag |-> resolution.follow_up_needed,
                   escalation_triggered |-> FALSE,
                   attempt_number |-> attempt_number, tier |-> tier_level,
                   kb_document_id |-> None, created_at |-> now]
        makesCase == /\ branch = "escalate"
                     /\ case_created_guard(classification.urgency,
                                           classification.compliance_flag)
    IN
    \E kb \in IF branch = "auto_resolve" THEN kbs ELSE {NoKb},
       failAt \in IF makesCase THEN fails ELSE {0} :
    LET Done(k) == failAt = 0 \/ failAt > k
        kbw == KbWorkflow(kb, final_confidence, log_id)
        case == [id |-> case_id, tenant_id |-> tenant.id,
                 status |-> case_status(final_confidence),
                 priority |-> case_priority(priority_requested, classification.urgency),
                 category |-> "support",
                 created_by |-> identity,
                 ai_confidence |-> final_confidence,
                 tier_route |-> case_tier_route(tier, classification.urgency,
                                                classification.compliance_flag),
                 created_at |-> now]
        kind == CASE branch = "auto_resolve" -> "error"  \* log_audit_event(tenant_id=...) raises TypeError
                  [] branch = "follow_up" -> "follow_up"
                  [] makesCase /\ failAt = 0 -> "case_created"
                  [] makesCase /\ failAt # 0 -> "error"
                  [] OTHER -> "null"   \* the handler falls off its end
    IN
    /\ tenants' = tenants1
    /\ identities' = identities \cup {identity}
    /\ aiLogs' =
         CASE branch = "auto_resolve" ->
                Append(aiLogs, [ai_log EXCEPT !.resolved = TRUE,
                                              !.kb_document_id = kbw.kb_document_id])
           [] branch = "follow_up" ->
                Append(aiLogs, [ai_log EXCEPT !.follow_up_flag = TRUE])
           [] makesCase /\ Done(1) ->
                Append(aiLogs, [ai_log EXCEPT !.escalation_triggered = TRUE,
                                              !.case_id = IF Done(2) THEN case_id ELSE NoId])
           \* the handler ends without a commit
           [] OTHER -> get_db(aiLogs, <<ai_log>>)
    /\ cases' = IF makesCase /\ Done(1) THEN Append(cases, case) ELSE cases
    /\ caseMessages' = IF makesCase /\ Done(3)
                       THEN Append(caseMessages, [case_id |-> case_id,
                                                  sender_type |-> "customer",
                                                  sender_email |-> user])
                       ELSE caseMessages
    /\ aiArtifacts' = IF makesCase /\ Done(3)
                      THEN Append(aiArtifacts, [case_id |-> case_id,
                                                artifact_type |-> "summary",
                                                confidence |-> final_confidence])
                      ELSE aiArtifacts
    /\ slaEvents' = IF makesCase /\ Done(4)
                    THEN Append(slaEvents, start_sla_tracking(case_id, tenant.id, tier))
                    ELSE slaEvents
    /\ auditEvents' = IF makesCase /\ Done(5)
                      THEN Append(auditEvents,
                                  log_audit_event("support_case_created_ai_first",
                                                  case_id, None, None))
                      ELSE auditEvents
    /\ kbDecisions' = IF branch = "auto_resolve" THEN kbw.decisions ELSE kbDecisions
    /\ kbIndex' = IF branch = "auto_resolve" THEN kbw.index ELSE kbIndex
    /\ kbRevisions' = IF branch = "auto_resolve" THEN kbw.revisions ELSE kbRevisions
    /\ kbQuality' = IF branch = "auto_resolve" THEN kbw.quality ELSE kbQuality
    /\ nreq' = nreq + 1
    /\ history' = Append(history, [tenant_id |-> tenant.id, message |-> msg,
                                   at |-> now, kind |-> kind])
    /\ last' = [op |-> "intake_request", kind |-> kind, branch |-> branch,
                tenant_id |-> tenant.id, tier |-> tier, message |-> msg,
                priority_requested |-> priority_requested,
                urgency |-> classification.urgency,
                compliance_flag |-> classification.compliance_flag,
                cls_ok |-> cls.ok, gen_ok |-> gen.ok,
                base |-> IF gen.ok THEN gen.confidence ELSE 0,
                kb_hits |-> kbHits, context_docs |-> contextLen, at |-> now,
                model_steps |-> IF gen.ok THEN gen.steps ELSE 0,
                confidence |-> final_confidence,
                attempt_number |-> attempt_number,
                fail_at |-> failAt,
                logs_before |-> Len(aiLogs), cases_before |-> Len(cases),
                case_id |-> IF kind = "case_created" THEN case_id ELSE NoId]
    /\ UNCHANGED <<onboardingVars, now, calls>>

(* -------------------------- the KB review queue ------------------------- *)
\* get_review_queue: the documents of the scores that need a review and have
\* not been reviewed
get_review_queue ==
    {kbQuality[i].outline_document_id :
        i \in {j \in DOMAIN kbQuality : /\ kbQuality[j].needs_review
                                        /\ ~kbQuality[j].reviewed}}

\* the latest quality score of the table, whatever its document
LatestScoreOfAny(doc) ==
    IF kbQuality = <<>> THEN NoId ELSE Len(kbQuality)

\* the latest quality score of a document (rows are in order of creation)
LatestScore(doc) ==
    LET rows == {i \in DOMAIN kbQuality : kbQuality[i].outline_document_id = doc}
    IN IF rows = {} THEN NoId ELSE CHOOSE i \in rows : \A j \in rows : j <= i

\* what approve_article and reject_article do to the score and to the index
review_article(op, doc, active, touch_index) ==
    IF LatestScore(doc) = NoId
    THEN /\ last' = [op |-> op, kind |-> "404", document_id |-> doc,
                     queued_before |-> doc \in get_review_queue]
         /\ UNCHANGED <<intakeVars, onboardingVars, now, nreq, history, calls>>
    ELSE
    /\ kbQuality' = [kbQuality EXCEPT ![LatestScore(doc)] =
                        [@ EXCEPT !.reviewed = TRUE, !.needs_review = FALSE]]
    /\ kbIndex' = IF touch_index
                  THEN {IF a.outline_document_id = doc
                        THEN [a EXCEPT !.is_active = active] ELSE a : a \in kbIndex}
                  ELSE kbIndex
    /\ last' = [op |-> op, kind |-> "ok", document_id |-> doc,
                queued_before |-> doc \in get_review_queue]
    /\ UNCHANGED <<tenants, identities, aiLogs, cases, caseMessages, aiArtifacts,
                   slaEvents, auditEvents, kbRevisions, kbDecisions, onboardingVars,
                   now, nreq, history, calls>>

\* approve_article
approve_article(doc) == review_article("approve_article", doc, TRUE, TRUE)

\* reject_article
reject_article(doc, disable_article) ==
    review_article("reject_article", doc, FALSE, disable_article)

(* ----------------------------- onboarding ------------------------------ *)
\* ONBOARDING_STEPS: the step keys of each phase
ONBOARDING_STEPS(phase) ==
    CASE phase = "phase_0_provisioned" -> <<"aws_provisioned", "supabase_ready">>
      [] phase = "phase_1_first_value" -> <<"portal_login", "first_ai_question", "kb_search">>
      [] phase = "phase_2_core_workflows" ->
            <<"first_case_created", "case_resolved", "email_intake">>
      [] phase = "phase_3_independent" ->
            <<"multiple_cases", "self_service_success", "team_adoption">>
      [] OTHER -> <<>>

\* phase_order with two phases exchanged
phase_order_exchanged ==
    <<"phase_0_provisioned", "phase_2_core_workflows", "phase_1_first_value",
      "phase_3_independent", "completed">>

phase_order == <<"phase_0_provisioned", "phase_1_first_value", "phase_2_core_workflows",
                 "phase_3_independent", "completed">>

\* phase_order.index(phase)
PhaseIndex(phase) == CHOOSE i \in DOMAIN phase_order : phase_order[i] = phase

SessionsOf(tid) == {x \in onbSessions : x.tenant_id = tid}

\* initialize_onboarding_steps without the query for an existing step
initialize_onboarding_steps_no_query(steps, session_id, phase) ==
    steps \cup
    {[session_id |-> session_id, phase |-> phase, step_key |-> ONBOARDING_STEPS(phase)[i],
      completed |-> FALSE] : i \in DOMAIN ONBOARDING_STEPS(phase)}

\* initialize_onboarding_steps: the step table after it, from the table `steps`
initialize_onboarding_steps(steps, session_id, phase) ==
    steps \cup
    {[session_id |-> session_id, phase |-> phase, step_key |-> ONBOARDING_STEPS(phase)[i],
      completed |-> FALSE] :
        i \in {j \in DOMAIN ONBOARDING_STEPS(phase) :
                 ~\E st \in steps : /\ st.session_id = session_id
                                    /\ st.step_key = ONBOARDING_STEPS(phase)[j]}}

\* get_or_create_sla_policy: the policy table after it
get_or_create_sla_policy(tid, plan_tier) ==
    IF get_sla_policy(tid, plan_tier) # {} THEN slaPolicies
    ELSE slaPolicies \cup
         {[tenant_id |-> tid, tier |-> plan_tier,
           first_response_minutes |-> get_default_sla_policy(plan_tier).first_response,
           resolution_minutes |-> get_default_sla_policy(plan_tier).resolution]}

\* create_tenant_entitlements: the entitlement table after it; the policy is
\* named by its (tenant, tier)
create_tenant_entitlements(tid, plan_tier) ==
    {e \in entitlements : e.tenant_id # tid} \cup
    {[tenant_id |-> tid, plan_tier |-> plan_tier,
      sla_policy |-> <<tid, plan_tier>>,
      freescout_enabled |-> plan_tier \in {"tier1", "tier2"},
      kb_rag |-> plan_tier # "tier0"]}

\* start_onboarding for a tenant without a session
start_onboarding_new(tid, tenant_name, primary_domain, plan_tier, trigger_source) ==
    IF /\ TenantById(tid) = {}
       /\ primary_domain # None
       /\ \E t \in tenants : t.primary_domain = primary_domain
    THEN \* the unique index on primary_domain rejects the new tenant
         /\ last' = [op |-> "start_onboarding", kind |-> "error", tenant_id |-> tid,
                     session_id |-> NoId, created |-> FALSE]
         /\ UNCHANGED <<intakeVars, onboardingVars, now, calls, nreq, history>>
    ELSE
    LET session_id == Cardinality(onbSessions) + 1
        session == [id |-> session_id, tenant_id |-> tid,
                    current_phase |-> "phase_0_provisioned", status |-> "active",
                    trigger_source |-> trigger_source, completed_at |-> NoTime]
    IN
    /\ tenants' = IF TenantById(tid) # {} THEN tenants
                  ELSE tenants \cup {[id |-> tid, name |-> tenant_name,
                                      primary_domain |-> primary_domain,
                                      plan_tier |-> plan_tier]}
    /\ onbSessions' = onbSessions \cup {session}
    /\ onbSteps' = initialize_onboarding_steps(onbSteps, session_id, "phase_0_provisioned")
    /\ slaPolicies' = get_or_create_sla_policy(tid, plan_tier)
    /\ entitlements' = create_tenant_entitlements(tid, plan_tier)
    /\ auditEvents' = Append(auditEvents,
                             log_audit_event("onboarding_started", NoId, tid, plan_tier))
    /\ last' = [op |-> "start_onboarding", kind |-> "ok", tenant_id |-> tid,
                session_id |-> session_id, created |-> TRUE]
    /\ UNCHANGED <<identities, aiLogs, cases, caseMessages, aiArtifacts, slaEvents,
                   kbIndex, kbRevisions, kbDecisions, kbQuality, now, calls, nreq, history>>

\* start_onboarding that writes its audit record for an existing session too
start_onboarding_audits_again(tid, tenant_name, primary_domain, plan_tier, trigger_source) ==
    IF SessionsOf(tid) # {}
    THEN /\ auditEvents' = Append(auditEvents,
                                  log_audit_event("onboarding_started", NoId, tid, plan_tier))
         /\ last' = [op |-> "start_onboarding", kind |-> "ok", tenant_id |-> tid,
                     session_id |-> First(SessionsOf(tid)).id, created |-> FALSE]
         /\ UNCHANGED <<tenants, identities, aiLogs, cases, caseMessages, aiArtifacts,
                        slaEvents, kbIndex, kbRevisions, kbDecisions, kbQuality,
                        onboardingVars, now, calls, nreq, history>>
    ELSE start_onboarding_new(tid, tenant_name, primary_domain, plan_tier, trigger_source)

\* start_onboarding
start_onboarding(tid, tenant_name, primary_domain, plan_tier, trigger_source) ==
    IF SessionsOf(tid) # {}
    THEN \* idempotent return of the existing session
         /\ last' = [op |-> "start_onboarding", kind |-> "ok", tenant_id |-> tid,
                     session_id |-> First(SessionsOf(tid)).id, created |-> FALSE]
         /\ UNCHANGED <<intakeVars, onboardingVars, now, calls, nreq, history>>
    ELSE start_onboarding_new(tid, tenant_name, primary_domain, plan_tier, trigger_source)

\* complete_onboarding on a session row: the row and the audit row
CompletedSession(session) ==
    [session EXCEPT !.status = "completed", !.current_phase = "completed",
                    !.completed_at = now]

\* the sessions advance_onboarding_step works on
ActiveSessions(tid) == {x \in SessionsOf(tid) : x.status = "active"}

\* the step rows of a session with a key
StepRows(session_id, step_key) ==
    {st \in onbSteps : st.session_id = session_id /\ st.step_key = step_key}

\* whether the tenant's session holds the step and it is completed
StepCompleted(tid, step_key) ==
    \E x \in SessionsOf(tid) : \E st \in StepRows(x.id, step_key) : st.completed

\* advance_onboarding_step: the completion of a step of the active session
\* and what follows from it
complete_step(tid, step_key) ==
    LET session == First(ActiveSessions(tid))
        step == First(StepRows(session.id, step_key))
        steps1 == (onbSteps \ {step}) \cup {[step EXCEPT !.completed = TRUE]}
        phase_steps == {st \in steps1 : /\ st.session_id = session.id
                                        /\ st.phase = session.current_phase}
        all_complete == \A st \in phase_steps : st.completed
        current_index == PhaseIndex(session.current_phase)
        advances == all_complete /\ current_index < Len(phase_order)
        next_phase == phase_order[current_index + 1]
        advanced == [session EXCEPT !.current_phase = next_phase]
        audit1 == Append(auditEvents,
                         log_audit_event("onboarding_step_completed", NoId, tid, step_key))
        audit2 == Append(audit1,
                         log_audit_event("onboarding_phase_advanced", NoId, tid, next_phase))
        audit3 == Append(audit2,
                         log_audit_event("onboarding_completed", NoId, tid, None))
    IN
    /\ onbSteps' = IF advances
                   THEN initialize_onboarding_steps(steps1, session.id, next_phase)
                   ELSE steps1
    /\ onbSessions' =
         IF ~advances THEN onbSessions
         ELSE (onbSessions \ {session}) \cup
              {IF next_phase = "completed" THEN CompletedSession(advanced) ELSE advanced}
    /\ auditEvents' = IF ~advances THEN audit1
                      ELSE IF next_phase = "completed" THEN audit3 ELSE audit2
    /\ last' = [op |-> "advance_step", kind |-> "true", tenant_id |-> tid,
                step_key |-> step_key,
                completed_before |-> StepCompleted(tid, step_key),
                phase_before |-> session.current_phase,
                status_before |-> session.status]
    /\ UNCHANGED <<tenants, identities, aiLogs, cases, caseMessages, aiArtifacts,
                   slaPolicies, slaEvents, entitlements, kbIndex, kbRevisions,
                   kbDecisions, kbQuality, now, calls, nreq, history>>

\* the phase and the status of the tenant's session, for the record of a call
PhaseOf(tid) == IF SessionsOf(tid) = {} THEN None ELSE First(SessionsOf(tid)).current_phase
StatusOf(tid) == IF SessionsOf(tid) = {} THEN None ELSE First(SessionsOf(tid)).status

\* advance_onboarding_step that completes a completed step again
advance_onboarding_step_recompletes(tid, step_key) ==
    IF ActiveSessions(tid) = {} \/ StepRows(First(ActiveSessions(tid)).id, step_key) = {}
    THEN /\ last' = [op |-> "advance_step", kind |-> "false", tenant_id |-> tid,
                     step_key |-> step_key,
                     completed_before |-> StepCompleted(tid, step_key),
                     phase_before |-> PhaseOf(tid), status_before |-> StatusOf(tid)]
         /\ UNCHANGED <<intakeVars, onboardingVars, now, calls, nreq, history>>
    ELSE complete_step(tid, step_key)

\* advance_onboarding_step whose session query has no status filter: the
\* step of a paused or completed session is completed too
advance_onboarding_step_any_status(tid, step_key) ==
    IF SessionsOf(tid) = {} \/ StepRows(First(SessionsOf(tid)).id, step_key) = {}
    THEN /\ last' = [op |-> "advance_step", kind |-> "false", tenant_id |-> tid,
                     step_key |-> step_key,
                     completed_before |-> StepCompleted(tid, step_key),
                     phase_before |-> PhaseOf(tid), status_before |-> StatusOf(tid)]
         /\ UNCHANGED <<intakeVars, onboardingVars, now, calls, nreq, history>>
    ELSE IF First(StepRows(First(SessionsOf(tid)).id, step_key)).completed
    THEN /\ last' = [op |-> "advance_step", kind |-> "true", tenant_id |-> tid,
                     step_key |-> step_key, completed_before |-> TRUE,
                     phase_before |-> PhaseOf(tid), status_before |-> StatusOf(tid)]
         /\ UNCHANGED <<intakeVars, onboardingVars, now, calls, nreq, history>>
    ELSE IF ActiveSessions(tid) # {} THEN complete_step(tid, step_key)
    ELSE /\ onbSteps' = {IF st \in StepRows(First(SessionsOf(tid)).id, step_key)
                         THEN [st EXCEPT !.completed = TRUE] ELSE st : st \in onbSteps}
         /\ auditEvents' = Append(auditEvents,
                                  log_audit_event("onboarding_step_completed", NoId, tid,
                                                  step_key))
         /\ last' = [op |-> "advance_step", kind |-> "true", tenant_id |-> tid,
                     step_key |-> step_key, completed_before |-> FALSE,
                     phase_before |-> PhaseOf(tid), status_before |-> StatusOf(tid)]
         /\ UNCHANGED <<tenants, identities, aiLogs, cases, caseMessages, aiArtifacts,
                        slaPolicies, slaEvents, entitlements, onbSessions, kbIndex,
                        kbRevisions, kbDecisions, kbQuality, now, calls, nreq, history>>

\* advance_onboarding_step
advance_onboarding_step(tid, step_key) ==
    IF ActiveSessions(tid) = {} \/ StepRows(First(ActiveSessions(tid)).id, step_key) = {}
    THEN /\ last' = [op |-> "advance_step", kind |-> "false", tenant_id |-> tid,
                     step_key |-> step_key,
                     completed_before |-> StepCompleted(tid, step_key),
                     phase_before |-> PhaseOf(tid), status_before |-> StatusOf(tid)]
         /\ UNCHANGED <<intakeVars, onboardingVars, now, calls, nreq, history>>
    ELSE IF First(StepRows(First(ActiveSessions(tid)).id, step_key)).completed
    THEN /\ last' = [op |-> "advance_step", kind |-> "true", tenant_id |-> tid,
                     step_key |-> step_key, completed_before |-> TRUE,
                     phase_before |-> PhaseOf(tid), status_before |-> StatusOf(tid)]
         /\ UNCHANGED <<intakeVars, onboardingVars, now, calls, nreq, history>>
    ELSE complete_step(tid, step_key)

\* pause_onboarding that keeps the phase of the session
pause_onboarding_keeps_phase(tid) ==
    IF SessionsOf(tid) = {}
    THEN /\ last' = [op |-> "pause", kind |-> "false", tenant_id |-> tid]
         /\ UNCHANGED <<intakeVars, onboardingVars, now, calls, nreq, history>>
    ELSE
    LET session == First(SessionsOf(tid))
    IN
    /\ onbSessions' = (onbSessions \ {session}) \cup {[session EXCEPT !.status = "paused"]}
    /\ auditEvents' = Append(auditEvents,
                             log_audit_event("onboarding_paused", NoId, tid, None))
    /\ last' = [op |-> "pause", kind |-> "true", tenant_id |-> tid]
    /\ UNCHANGED <<tenants, identities, aiLogs, cases, caseMessages, aiArtifacts,
                   slaPolicies, slaEvents, entitlements, onbSteps, kbIndex, kbRevisions,
                   kbDecisions, kbQuality, now, calls, nreq, history>>

\* pause_onboarding
pause_onboarding(tid) ==
    IF SessionsOf(tid) = {}
    THEN /\ last' = [op |-> "pause", kind |-> "false", tenant_id |-> tid]
         /\ UNCHANGED <<intakeVars, onboardingVars, now, calls, nreq, history>>
    ELSE
    LET session == First(SessionsOf(tid))
    IN
    /\ onbSessions' = (onbSessions \ {session}) \cup
                      {[session EXCEPT !.status = "paused", !.current_phase = "paused"]}
    /\ auditEvents' = Append(auditEvents,
                             log_audit_event("onboarding_paused", NoId, tid, None))
    /\ last' = [op |-> "pause", kind |-> "true", tenant_id |-> tid]
    /\ UNCHANGED <<tenants, identities, aiLogs, cases, caseMessages, aiArtifacts,
                   slaPolicies, slaEvents, entitlements, onbSteps, kbIndex, kbRevisions,
                   kbDecisions, kbQuality, now, calls, nreq, history>>

\* resume_onboarding that does not look at the status of the session
resume_onboarding_any_status(tid) ==
    IF SessionsOf(tid) = {}
    THEN /\ last' = [op |-> "resume", kind |-> "false", tenant_id |-> tid]
         /\ UNCHANGED <<intakeVars, onboardingVars, now, calls, nreq, history>>
    ELSE
    /\ onbSessions' = (onbSessions \ SessionsOf(tid)) \cup
                      {[x EXCEPT !.status = "active",
                                 !.current_phase = IF x.current_phase = "paused"
                                                   THEN "phase_0_provisioned"
                                                   ELSE x.current_phase] :
                          x \in SessionsOf(tid)}
    /\ auditEvents' = Append(auditEvents,
                             log_audit_event("onboarding_resumed", NoId, tid, None))
    /\ last' = [op |-> "resume", kind |-> "true", tenant_id |-> tid]
    /\ UNCHANGED <<tenants, identities, aiLogs, cases, caseMessages, aiArtifacts,
                   slaPolicies, slaEvents, entitlements, onbSteps, kbIndex, kbRevisions,
                   kbDecisions, kbQuality, now, calls, nreq, history>>

\* resume_onboarding
resume_onboarding(tid) ==
    LET paused == {x \in SessionsOf(tid) : x.status = "paused"}
        session == First(paused)
    IN
    IF paused = {}
    THEN /\ last' = [op |-> "resume", kind |-> "false", tenant_id |-> tid]
         /\ UNCHANGED <<intakeVars, onboardingVars, now, calls, nreq, history>>
    ELSE
    /\ onbSessions' = (onbSessions \ {session}) \cup
                      {[session EXCEPT
                          !.status = "active",
                          !.current_phase = IF session.current_phase = "paused"
                                            THEN "phase_0_provisioned"
                                            ELSE session.current_phase]}
    /\ auditEvents' = Append(auditEvents,
                             log_audit_event("onboarding_resumed", NoId, tid, None))
    /\ last' = [op |-> "resume", kind |-> "true", tenant_id |-> tid]
    /\ UNCHANGED <<tenants, identities, aiLogs, cases, caseMessages, aiArtifacts,
                   slaPolicies, slaEvents, entitlements, onbSteps, kbIndex, kbRevisions,
                   kbDecisions, kbQuality, now, calls, nreq, history>>

\* complete_onboarding
complete_onboarding(tid) ==
    IF SessionsOf(tid) = {}
    THEN /\ last' = [op |-> "complete", kind |-> "false", tenant_id |-> tid]
         /\ UNCHANGED <<intakeVars, onboardingVars, now, calls, nreq, history>>
    ELSE
    LET session == First(SessionsOf(tid))
    IN
    /\ onbSessions' = (onbSessions \ {session}) \cup {CompletedSession(session)}
    /\ auditEvents' = Append(auditEvents,
                             log_audit_event("onboarding_completed", NoId, tid, None))
    /\ last' = [op |-> "complete", kind |-> "true", tenant_id |-> tid]
    /\ UNCHANGED <<tenants, identities, aiLogs, cases, caseMessages, aiArtifacts,
                   slaPolicies, slaEvents, entitlements, onbSteps, kbIndex, kbRevisions,
                   kbDecisions, kbQuality, now, calls, nreq, history>>

\* upgrade_tier that leaves the entitlements as they are
upgrade_tier_keeps_entitlements(tid, previous_tier, new_tier) ==
    IF TenantById(tid) = {}
    THEN /\ last' = [op |-> "upgrade_tier", kind |-> "false", tenant_id |-> tid]
         /\ UNCHANGED <<intakeVars, onboardingVars, now, nreq, history, calls>>
    ELSE
    /\ tenants' = (tenants \ TenantById(tid)) \cup
                  {[x EXCEPT !.plan_tier = new_tier] : x \in TenantById(tid)}
    /\ slaPolicies' = get_or_create_sla_policy(tid, new_tier)
    /\ auditEvents' = Append(auditEvents,
                             log_audit_event("tier_changed", NoId, tid, new_tier))
    /\ last' = [op |-> "upgrade_tier", kind |-> "true", tenant_id |-> tid]
    /\ UNCHANGED <<identities, aiLogs, cases, caseMessages, aiArtifacts, slaEvents,
                   entitlements, onbSessions, onbSteps, kbIndex, kbRevisions,
                   kbDecisions, kbQuality, now, nreq, history, calls>>

\* upgrade_tier
upgrade_tier(tid, previous_tier, new_tier) ==
    IF TenantById(tid) = {}
    THEN /\ last' = [op |-> "upgrade_tier", kind |-> "false", tenant_id |-> tid]
         /\ UNCHANGED <<intakeVars, onboardingVars, now, calls, nreq, history>>
    ELSE
    LET tenant == First(TenantById(tid))
    IN
    /\ tenants' = (tenants \ {tenant}) \cup {[tenant EXCEPT !.plan_tier = new_tier]}
    /\ slaPolicies' = get_or_create_sla_policy(tid, new_tier)
    /\ entitlements' = create_tenant_entitlements(tid, new_tier)
    /\ auditEvents' = Append(auditEvents,
                             log_audit_event("tier_changed", NoId, tid, new_tier))
    /\ last' = [op |-> "upgrade_tier", kind |-> "true", tenant_id |-> tid]
    /\ UNCHANGED <<identities, aiLogs, cases, caseMessages, aiArtifacts, slaEvents,
                   onbSessions, onbSteps, kbIndex, kbRevisions, kbDecisions, kbQuality,
                   now, calls, nreq, history>>

(* ------------------------ onboarding endpoints ------------------------- *)
\* the strings requests carry for tiers and trigger sources, and str.lower()
EnumStrings ==
    {"tier0", "tier1", "tier2", "TIER0", "TIER2", "gold", "basic",
     "supabase_registration", "tier_upgrade", "Manual_Restart", "cron"}
LowerEnum == [v \in EnumStrings |->
    CASE v = "TIER0" -> "tier0"
      [] v = "TIER2" -> "tier2"
      [] v = "Manual_Restart" -> "manual_restart"
      [] OTHER -> v]

ValueError == "ValueError"
OnboardingTriggers == {"supabase_registration", "tier_upgrade", "manual_restart"}

\* PlanTier(value) without the check of the value
PlanTier_unchecked(value) == value

\* PlanTier(value), OnboardingTrigger(value): the member, or ValueError
PlanTier(value) == IF value \in PlanTiers THEN value ELSE ValueError
OnboardingTrigger(value) == IF value \in OnboardingTriggers THEN value ELSE ValueError

\* HTTP 400 of an endpoint
BadRequest(op, tid) ==
    /\ last' = [op |-> op, kind |-> "400", tenant_id |-> tid]
    /\ UNCHANGED <<intakeVars, onboardingVars, now, nreq, history, calls>>

\* POST /start
start_onboarding_endpoint(tenant_id, tenant_name, primary_domain, plan_tier, trigger_source) ==
    IF \/ PlanTier(LowerEnum[plan_tier]) = ValueError
       \/ OnboardingTrigger(LowerEnum[trigger_source]) = ValueError
    THEN BadRequest("start_onboarding_endpoint", tenant_id)
    ELSE start_onboarding(tenant_id, tenant_name, primary_domain,
                          PlanTier(LowerEnum[plan_tier]),
                          OnboardingTrigger(LowerEnum[trigger_source]))

\* POST /upgrade
upgrade_tier_endpoint(tenant_id, previous_tier, new_tier, trigger_source) ==
    IF \/ PlanTier(LowerEnum[previous_tier]) = ValueError
       \/ PlanTier(LowerEnum[new_tier]) = ValueError
       \/ OnboardingTrigger(LowerEnum[trigger_source]) = ValueError
    THEN BadRequest("upgrade_tier_endpoint", tenant_id)
    ELSE upgrade_tier(tenant_id, PlanTier(LowerEnum[previous_tier]),
                      PlanTier(LowerEnum[new_tier]))

(* ------------------------------- cases --------------------------------- *)
CaseStatuses == {"new", "open", "pending_customer", "pending_internal", "escalated",
                 "resolved", "closed"}

caseFrame == <<tenants, identities, aiLogs, aiArtifacts, slaEvents, kbIndex, kbRevisions,
               kbDecisions, kbQuality, onboardingVars, now, nreq, history, calls>>

\* the answer for a case that does not exist
CaseNotFound(op, case_id) ==
    /\ last' = [op |-> op, kind |-> "not_found", case_id |-> case_id]
    /\ UNCHANGED <<cases, caseMessages, auditEvents, caseFrame>>

\* ops update_case: a status and a priority, each given or None
update_case(case_id, status, priority) ==
    IF case_id \notin DOMAIN cases THEN CaseNotFound("update_case", case_id)
    ELSE IF status # None /\ status \notin CaseStatuses
    THEN \* 400 Invalid status
         /\ last' = [op |-> "update_case", kind |-> "invalid", case_id |-> case_id]
         /\ UNCHANGED <<cases, caseMessages, auditEvents, caseFrame>>
    ELSE
    /\ cases' = [cases EXCEPT
                   ![case_id].status = IF status # None THEN status ELSE @,
                   ![case_id].priority = IF priority # None THEN priority ELSE @]
    /\ auditEvents' = Append(auditEvents,
                             log_audit_event("case_updated_by_ops", case_id, None, status))
    /\ last' = [op |-> "update_case", kind |-> "ok", case_id |-> case_id]
    /\ UNCHANGED <<caseMessages, caseFrame>>

\* escalate_case (requested by the user) and auto_escalate (internal hook)
escalate_case(case_id, event_type) ==
    IF case_id \notin DOMAIN cases THEN CaseNotFound(event_type, case_id)
    ELSE
    /\ cases' = [cases EXCEPT ![case_id].status = "escalated"]
    /\ auditEvents' = Append(auditEvents,
                             log_audit_event(event_type, case_id, None,
                                             cases[case_id].status))
    /\ last' = [op |-> event_type, kind |-> "ok", case_id |-> case_id]
    /\ UNCHANGED <<caseMessages, caseFrame>>

\* create_case_message
create_case_message(case_id, sender_email) ==
    IF case_id \notin DOMAIN cases THEN CaseNotFound("create_case_message", case_id)
    ELSE
    /\ caseMessages' = Append(caseMessages, [case_id |-> case_id,
                                             sender_type |-> "customer",
                                             sender_email |-> sender_email])
    /\ cases' = [cases EXCEPT ![case_id].status =
                    IF @ = "pending_customer" THEN "open" ELSE @]
    /\ auditEvents' = Append(auditEvents,
                             log_audit_event("case_message_added", case_id, None, None))
    /\ last' = [op |-> "create_case_message", kind |-> "ok", case_id |-> case_id]
    /\ UNCHANGED caseFrame

(* --------------------------- concurrent calls -------------------------- *)
\* Each statement a call sends to the store is one step; the statements of
\* concurrent calls interleave.
Callers == 1..MaxCallers

Idle == [op |-> "idle", pc |-> "idle", tenant_id |-> None, email |-> None,
         plan_tier |-> None, result |-> NoId]

\* the call of a caller moves to `pc` (with a result, when it returns)
Goto(c, pc, result) == calls' = [calls EXCEPT ![c].pc = pc, ![c].result = result]

raceFrame == <<identities, aiLogs, cases, caseMessages, aiArtifacts, slaEvents, kbIndex,
               kbRevisions, kbDecisions, kbQuality, now, nreq, history, last>>

\* a caller calls start_onboarding
BeginStart(c, tid, plan_tier) ==
    /\ calls[c].pc = "idle"
    /\ calls' = [calls EXCEPT ![c] = [op |-> "start_onboarding", pc |-> "check_session",
                                      tenant_id |-> tid, email |-> None,
                                      plan_tier |-> plan_tier, result |-> NoId]]
    /\ UNCHANGED <<tenants, auditEvents, onboardingVars, raceFrame>>

\* start_onboarding: the query for an existing session and the early return
CheckSession(c) ==
    /\ calls[c].pc = "check_session"
    /\ IF SessionsOf(calls[c].tenant_id) # {}
       THEN Goto(c, "done", First(SessionsOf(calls[c].tenant_id)).id)
       ELSE Goto(c, "query_tenant", NoId)
    /\ UNCHANGED <<tenants, auditEvents, onboardingVars, raceFrame>>

\* get_or_create_tenant: the query
QueryTenant(c) ==
    /\ calls[c].pc = "query_tenant"
    /\ IF TenantById(calls[c].tenant_id) # {}
       THEN Goto(c, "insert_session", NoId)
       ELSE Goto(c, "insert_tenant", NoId)
    /\ UNCHANGED <<tenants, auditEvents, onboardingVars, raceFrame>>

\* get_or_create_tenant: the insert and its commit; the primary key rejects a
\* second row and the error leaves the call
InsertTenant(c) ==
    /\ calls[c].pc = "insert_tenant"
    /\ IF TenantById(calls[c].tenant_id) # {}
       THEN Goto(c, "failed", NoId) /\ UNCHANGED tenants
       ELSE /\ tenants' = tenants \cup {[id |-> calls[c].tenant_id, name |-> "New",
                                         primary_domain |-> None,
                                         plan_tier |-> calls[c].plan_tier]}
            /\ Goto(c, "insert_session", NoId)
    /\ UNCHANGED <<auditEvents, onboardingVars, raceFrame>>

\* start_onboarding: the insert of the session and its commit; the unique
\* tenant_id rejects a second row and the error leaves the call
InsertSession(c) ==
    /\ calls[c].pc = "insert_session"
    /\ IF SessionsOf(calls[c].tenant_id) # {}
       THEN Goto(c, "failed", NoId) /\ UNCHANGED onbSessions
       ELSE /\ onbSessions' = onbSessions \cup
                  {[id |-> Cardinality(onbSessions) + 1, tenant_id |-> calls[c].tenant_id,
                    current_phase |-> "phase_0_provisioned", status |-> "active",
                    trigger_source |-> "supabase_registration", completed_at |-> NoTime]}
            /\ Goto(c, "finish", Cardinality(onbSessions) + 1)
    /\ UNCHANGED <<tenants, auditEvents, slaPolicies, entitlements, onbSteps, raceFrame>>

\* start_onboarding: the steps, the policy, the entitlements and the audit
\* record, and the return of the session
FinishStart(c) ==
    /\ calls[c].pc = "finish"
    /\ onbSteps' = initialize_onboarding_steps(onbSteps, calls[c].result,
                                               "phase_0_provisioned")
    /\ slaPolicies' = get_or_create_sla_policy(calls[c].tenant_id, calls[c].plan_tier)
    /\ entitlements' = create_tenant_entitlements(calls[c].tenant_id, calls[c].plan_tier)
    /\ auditEvents' = Append(auditEvents,
                             log_audit_event("onboarding_started", NoId,
                                             calls[c].tenant_id, calls[c].plan_tier))
    /\ Goto(c, "done", calls[c].result)
    /\ UNCHANGED <<tenants, onbSessions, raceFrame>>

\* a caller calls get_or_create_identity
BeginIdentity(c, tid, email) ==
    /\ calls[c].pc = "idle"
    /\ calls' = [calls EXCEPT ![c] = [op |-> "get_or_create_identity",
                                      pc |-> "query_identity", tenant_id |-> tid,
                                      email |-> email, plan_tier |-> None,
                                      result |-> NoId]]
    /\ UNCHANGED <<tenants, identities, auditEvents, onboardingVars, aiLogs, cases,
                   caseMessages, aiArtifacts, slaEvents, kbIndex, kbRevisions,
                   kbDecisions, kbQuality, now, nreq, history, last>>

\* the Identity rows of a key
IdentityRows(tid, email) ==
    {i \in identities : i.tenant_id = tid /\ i.email = LowerOf[email]}

\* get_or_create_identity: the query and the return of the row found
QueryIdentity(c) ==
    /\ calls[c].pc = "query_identity"
    /\ IF IdentityRows(calls[c].tenant_id, calls[c].email) # {}
       THEN \E i \in IdentityRows(calls[c].tenant_id, calls[c].email) : Goto(c, "done", i.id)
       ELSE Goto(c, "insert_identity", NoId)
    /\ UNCHANGED <<tenants, identities, auditEvents, onboardingVars, aiLogs, cases,
                   caseMessages, aiArtifacts, slaEvents, kbIndex, kbRevisions,
                   kbDecisions, kbQuality, now, nreq, history, last>>

\* get_or_create_identity: the insert and its commit; the table has no
\* unique constraint on (tenant_id, email)
InsertIdentity(c) ==
    /\ calls[c].pc = "insert_identity"
    /\ identities' = identities \cup
          {[id |-> Cardinality(identities) + 1, tenant_id |-> calls[c].tenant_id,
            email |-> LowerOf[calls[c].email]]}
    /\ Goto(c, "done", Cardinality(identities) + 1)
    /\ UNCHANGED <<tenants, auditEvents, onboardingVars, aiLogs, cases, caseMessages,
                   aiArtifacts, slaEvents, kbIndex, kbRevisions, kbDecisions, kbQuality,
                   now, nreq, history, last>>

(* ------------------------------ behaviours ----------------------------- *)
\* tenants present before the first request (rows inserted as the tests'
\* fixtures insert them)
SeedTenants ==
    {[id |-> "t0", name |-> "Zero", primary_domain |-> None, plan_tier |-> "tier0"],
     [id |-> "t1", name |-> "Acme", primary_domain |-> "acme.com", plan_tier |-> "tier1"],
     [id |-> "t2", name |-> "Big", primary_domain |-> "big.io", plan_tier |-> "tier2"]}

Init ==
    /\ tenants = SeedTenants
    /\ identities = {}
    /\ aiLogs = <<>>
    /\ cases = <<>>
    /\ caseMessages = <<>>
    /\ aiArtifacts = <<>>
    /\ slaPolicies = {}
    /\ slaEvents = <<>>
    /\ auditEvents = <<>>
    /\ entitlements = {}
    /\ onbSessions = {}
    /\ onbSteps = {}
    /\ kbIndex = {}
    /\ kbRevisions = <<>>
    /\ kbDecisions = <<>>
    /\ kbQuality = <<>>
    /\ now = 0
    /\ nreq = 0
    /\ history = <<>>
    /\ last = [op |-> "init", kind |-> "none"]
    /\ calls = [c \in Callers |-> Idle]

\* time passes
Tick ==
    /\ now < MaxTime
    /\ now' = now + 1
    /\ UNCHANGED <<intakeVars, onboardingVars, nreq, history, last, calls>>

\* what the classifier may answer: any urgency and flag, or a failed call
ClsInputs ==
    [ok : {TRUE}, urgency : Urgencies, compliance_flag : BOOLEAN]
    \cup {[ok |-> FALSE, urgency |-> "normal", compliance_flag |-> FALSE]}

GenFailed == [ok |-> FALSE, confidence |-> 0, steps |-> 0, needs_clarification |-> FALSE]

\* what the generation may answer, over a set of model confidences and of
\* step counts, or a failed call
GenInputs(confidences, stepCounts, clar) ==
    [ok : {TRUE}, confidence : confidences, steps : stepCounts,
     needs_clarification : clar] \cup {GenFailed}

\* the model confidences around the thresholds
BaseConfidences == {449999, 450000, 500000, 779990, 780000, 950000}

\* what find_similar_articles, Outline and the evaluator may answer
CandidateLists(sims) ==
    {<<>>} \cup {<<[outline_document_id |-> d, similarity |-> sim]>> :
                    d \in IndexedDocs \cup {"ext"}, sim \in sims}
KbInputs(sims, reviews) ==
    [candidates : CandidateLists(sims), create_ok : BOOLEAN, needs_review : reviews]

\* requests of the seeded tenants, of a known domain, of an unknown domain
\* and of a tenant id that does not exist
Origins ==
    {<<"t0", "user42">>, <<None, "ann@acme.com">>, <<"t2", "ann@acme.com">>,
     <<None, "Bob@Other.org">>, <<"t9", "user42">>}

IntakeStep(origins, msgs, prios, clss, hits, gens, kbs, fails) ==
    \E o \in origins, msg \in msgs, pr \in prios, cls \in clss, h \in hits,
       gen \in gens :
        intake_request(o[1], o[2], msg, pr, cls, h, gen, kbs, fails)

\* any request, the store available
Intake ==
    /\ nreq < MaxRequests
    /\ IntakeStep(Origins, {"A"}, {"normal"}, ClsInputs, {0},
                  GenInputs({449999, 450000, 779990, 780000}, {0}, {FALSE}),
                  KbInputs({750}, {FALSE}), {0})

Next == Intake

Spec == Init /\ [][Next]_vars

\* requests of every tier over the model confidences, the context sizes and
\* the step counts
IntakeScore ==
    /\ nreq < MaxScoreRequests
    /\ IntakeStep({<<"t0", "user42">>, <<None, "ann@acme.com">>, <<"t2", "ann@acme.com">>},
                  {"A"}, {"normal"},
                  {[ok |-> TRUE, urgency |-> "normal", compliance_flag |-> FALSE],
                   [ok |-> TRUE, urgency |-> "critical", compliance_flag |-> FALSE]},
                  {0, 2, MaxKbHits},
                  GenInputs(BaseConfidences, {0, 1, MaxSteps}, {FALSE}), {NoKb}, {0})

NextScore == IntakeScore

SpecScore == Init /\ [][NextScore]_vars

\* repeated requests of two tenants over similar messages, time passing
IntakeRepeat ==
    /\ nreq < MaxRepeats
    /\ IntakeStep({<<"t0", "user42">>, <<None, "ann@acme.com">>}, {"A", "C"}, {"normal"},
                  {[ok |-> TRUE, urgency |-> "normal", compliance_flag |-> FALSE],
                   [ok |-> TRUE, urgency |-> "critical", compliance_flag |-> FALSE]},
                  {0}, [ok : {TRUE}, confidence : {400000, 500000, 800000},
                        steps : {0}, needs_clarification : {FALSE}],
                  {NoKb}, {0})

NextRepeat == IntakeRepeat \/ Tick

SpecRepeat == Init /\ [][NextRepeat]_vars

\* requests of a tier0 and of a tier1 tenant whose model answer may ask for a
\* clarification, over the three confidence bands
IntakeFlags ==
    /\ nreq < MaxRequests
    /\ IntakeStep({<<"t0", "user42">>, <<None, "ann@acme.com">>}, {"A"}, {"normal"},
                  {[ok |-> TRUE, urgency |-> "normal", compliance_flag |-> FALSE],
                   [ok |-> TRUE, urgency |-> "critical", compliance_flag |-> FALSE]},
                  {0}, GenInputs({400000, 500000, 800000}, {0}, BOOLEAN), {NoKb}, {0})

NextFlags == IntakeFlags

SpecFlags == Init /\ [][NextFlags]_vars

\* repeated requests of the tier1 and the tier2 tenant over the priorities
\* and the classifications
IntakeCase ==
    /\ nreq < MaxCaseRequests
    /\ IntakeStep({<<None, "ann@acme.com">>, <<"t2", "ann@acme.com">>}, {"A"},
                  {"low", "high"},
                  {[ok |-> TRUE, urgency |-> "critical", compliance_flag |-> FALSE],
                   [ok |-> TRUE, urgency |-> "normal", compliance_flag |-> TRUE],
                   [ok |-> TRUE, urgency |-> "normal", compliance_flag |-> FALSE]},
                  {0}, [ok : {TRUE}, confidence : {400000, 800000},
                        steps : {0}, needs_clarification : {FALSE}],
                  {NoKb}, {0})

NextCase == IntakeCase

SpecCase == Init /\ [][NextCase]_vars

\* any request, the store becoming unavailable at some commit of the case branch
IntakeFaults ==
    /\ nreq < MaxFaultRequests
    /\ IntakeStep(Origins, {"A"}, {"normal"}, ClsInputs, {0},
                  GenInputs({449999, 450000, 779990, 780000}, {0}, {FALSE}),
                  {NoKb}, 0..CaseBranchCommits)

NextFaults == IntakeFaults

SpecFaults == Init /\ [][NextFaults]_vars

\* the KB decision: issue titles, the titles Outline finds and confidences
\* around the threshold
Titles ==
    {<<>>, <<"vpn", "connection", "timeout">>,
     <<"vpn", "connection", "timeout", "issue">>,
     <<"vpn", "timeout", "on", "connection", "issue">>,
     <<"printer", "offline">>}
TitleLists == {<<>>} \cup {<<t>> : t \in Titles} \cup {<<t, u>> : t, u \in Titles}
DecideConfidences == {0, 749999, 750000, 800000, 1000000}

Decide ==
    \E issue_title \in Titles, titles \in TitleLists, c \in DecideConfidences :
        /\ last' = [op |-> "decide_update_or_create", kind |-> "ok",
                    issue_title |-> issue_title, titles |-> titles, confidence |-> c,
                    decision |-> decide_update_or_create(
                                    find_similar_articles(issue_title, titles), c)]
        /\ UNCHANGED <<intakeVars, onboardingVars, now, nreq, history, calls>>

NextDecide == Decide

SpecDecide == Init /\ [][NextDecide]_vars

\* KB articles: documents are created and updated in any order
RevCreate ==
    /\ Cardinality(kbIndex) < MaxDocs
    /\ \E created \in BOOLEAN : create_article(created)
RevUpdate ==
    /\ Len(kbRevisions) < MaxRevisions
    /\ \E d \in {"d1", "d2", "d3", "ext"} : update_article(d)

NextRevisions == RevCreate \/ RevUpdate

SpecRevisions == Init /\ [][NextRevisions]_vars

\* auto-resolved requests whose KB workflow creates or updates documents,
\* and reviewers who approve and reject them
ReviewIntake ==
    /\ nreq < MaxRequests
    /\ IntakeStep({<<"t0", "user42">>}, {"A"}, {"normal"},
                  {[ok |-> TRUE, urgency |-> "normal", compliance_flag |-> FALSE]},
                  {0}, GenInputs({800000}, {0}, {FALSE}),
                  KbInputs({500, 900}, BOOLEAN), {0})
ReviewApprove == \E doc \in {"d1", "d2", "ext"} : approve_article(doc)
ReviewReject ==
    \E doc \in {"d1", "d2", "ext"}, disable_article \in BOOLEAN :
        reject_article(doc, disable_article)

NextReview == ReviewIntake \/ ReviewApprove \/ ReviewReject

SpecReview == Init /\ [][NextReview]_vars

\* the training dataset: the tables support_ai_logs and kb_quality_scores as
\* requests, feedback and reviews may have left them
LogKinds ==
    [resolved : BOOLEAN, used_in_training : BOOLEAN,
     confidence : {749999, 750000, 849999, 850000},
     helpful : {"none", "true", "false"}, kb_document_id : {None, "d1"}]
PairKinds ==
    [resolved : {TRUE}, used_in_training : {FALSE}, confidence : {750000, 850000},
     helpful : {"none", "true"}, kb_document_id : {None, "d1"}]
WithIds(kinds) ==
    [i \in DOMAIN kinds |->
        [id |-> i, resolved |-> kinds[i].resolved,
         used_in_training |-> kinds[i].used_in_training,
         confidence |-> kinds[i].confidence, helpful |-> kinds[i].helpful,
         kb_document_id |-> kinds[i].kb_document_id]]
LogTables ==
    {WithIds(<<a>>) : a \in LogKinds} \cup {WithIds(<<a, b>>) : a, b \in PairKinds}
ScoreRows ==
    {[outline_document_id |-> "d1", overall_score |-> 6, needs_review |-> FALSE,
      reviewed |-> TRUE],
     [outline_document_id |-> "d1", overall_score |-> 7, needs_review |-> FALSE,
      reviewed |-> TRUE],
     [outline_document_id |-> "d1", overall_score |-> 9, needs_review |-> TRUE,
      reviewed |-> TRUE],
     [outline_document_id |-> "d1", overall_score |-> 6, needs_review |-> FALSE,
      reviewed |-> FALSE]}
ScoreTables == {<<>>} \cup {<<q>> : q \in ScoreRows} \cup {<<q, r>> : q, r \in ScoreRows}

InitTraining ==
    /\ tenants = SeedTenants
    /\ identities = {}
    /\ aiLogs \in LogTables
    /\ cases = <<>>
    /\ caseMessages = <<>>
    /\ aiArtifacts = <<>>
    /\ slaPolicies = {}
    /\ slaEvents = <<>>
    /\ auditEvents = <<>>
    /\ entitlements = {}
    /\ onbSessions = {}
    /\ onbSteps = {}
    /\ kbIndex = {}
    /\ kbRevisions = <<>>
    /\ kbDecisions = <<>>
    /\ kbQuality \in ScoreTables
    /\ now = 0
    /\ nreq = 0
    /\ history = <<>>
    /\ last = [op |-> "init", kind |-> "none"]
    /\ calls = [c \in Callers |-> Idle]

BuildBatch ==
    \E limit \in {1, 2}, min_confidence \in {750000}, min_quality_score \in {7} :
        \E order \in Orders({i \in DOMAIN aiLogs :
                                Selectable(aiLogs[i], min_confidence)}) :
            build_training_batch(limit, min_confidence, min_quality_score, order)
MarkUsed == \E log_ids \in SUBSET {1, 2, 3} : mark_used_for_training(log_ids)

NextTraining == BuildBatch \/ MarkUsed

SpecTraining == InitTraining /\ [][NextTraining]_vars

\* tenant resolution: a tenant registers with a domain written in mixed case,
\* requests without tenant_id arrive from every user id
ResolveUsers == UserIds
ResolveStart == start_onboarding("n2", "Other", "Other.org", "tier1", "manual_restart")
ResolveIntake ==
    /\ nreq < MaxRequests
    /\ IntakeStep({<<None, u>> : u \in ResolveUsers}, {"A", "D"}, {"normal"},
                  {[ok |-> FALSE, urgency |-> "normal", compliance_flag |-> FALSE]},
                  {0}, {GenFailed}, {NoKb}, {0})

\* a call of get_or_create_prospect_tenant: the row it returns is committed
ResolveProspect ==
    /\ nreq < MaxRequests
    /\ tenants' = tenants \cup {get_or_create_prospect_tenant}
    /\ last' = [op |-> "get_or_create_prospect_tenant", kind |-> "ok",
                tenant_id |-> get_or_create_prospect_tenant.id]
    /\ nreq' = nreq + 1
    /\ UNCHANGED <<identities, aiLogs, cases, caseMessages, aiArtifacts, slaEvents,
                   auditEvents, kbIndex, kbRevisions, kbDecisions, kbQuality,
                   onboardingVars, now, calls, history>>

NextResolve == ResolveStart \/ ResolveIntake \/ ResolveProspect

SpecResolve == Init /\ [][NextResolve]_vars

\* the start requests explored: a new tenant (twice, with two tiers), a new
\* tenant with a domain that is taken, and a tenant that exists
StartInputs ==
    {<<"n1", "New", None, "tier1">>, <<"n1", "New", None, "tier2">>,
     <<"n2", "Other", "acme.com", "tier1">>, <<"t1", "Acme", "acme.com", "tier2">>}

OnbTenants == {"n1", "t1"}
OnbStepKeys == {"aws_provisioned", "supabase_ready", "portal_login"}

Start ==
    /\ Len(auditEvents) < MaxAuditEvents
    /\ \E i \in StartInputs : start_onboarding(i[1], i[2], i[3], i[4], "supabase_registration")
AdvanceStep ==
    /\ Len(auditEvents) < MaxAuditEvents
    /\ \E t \in OnbTenants, k \in OnbStepKeys : advance_onboarding_step(t, k)
Pause ==
    /\ Len(auditEvents) < MaxAuditEvents
    /\ \E t \in OnbTenants : pause_onboarding(t)
Resume ==
    /\ Len(auditEvents) < MaxAuditEvents
    /\ \E t \in OnbTenants : resume_onboarding(t)
Complete ==
    /\ Len(auditEvents) < MaxAuditEvents
    /\ \E t \in OnbTenants : complete_onboarding(t)
UpgradeTier ==
    /\ Len(auditEvents) < MaxAuditEvents
    /\ \E t \in OnbTenants : upgrade_tier(t, "tier1", "tier2")

NextOnboarding == Start \/ AdvanceStep \/ Pause \/ Resume \/ Complete \/ UpgradeTier

SpecOnboarding == Init /\ [][NextOnboarding]_vars

\* one tenant followed through all its phases, with pauses
AllStepKeys ==
    UNION {{ONBOARDING_STEPS(phase_order[i])[j] : j \in DOMAIN ONBOARDING_STEPS(phase_order[i])} :
              i \in DOMAIN phase_order}

PausedRecords(tid) ==
    {i \in DOMAIN auditEvents : /\ auditEvents[i].event_type = "onboarding_paused"
                                /\ auditEvents[i].tenant_id = tid}

PhaseStart == start_onboarding("n1", "New", None, "tier1", "supabase_registration")
\* the steps of the first two phases are reported in any order, those of the
\* later phases in the order of their checklist
ReportedInOrder(tid, phase) ==
    \E j \in DOMAIN ONBOARDING_STEPS(phase) :
        /\ \A h \in 1..(j - 1) : StepCompleted(tid, ONBOARDING_STEPS(phase)[h])
        /\ advance_onboarding_step(tid, ONBOARDING_STEPS(phase)[j])
PhaseAdvance ==
    \/ \E k \in {"aws_provisioned", "supabase_ready", "portal_login",
                 "first_ai_question", "kb_search"} : advance_onboarding_step("n1", k)
    \/ ReportedInOrder("n1", "phase_2_core_workflows")
    \/ ReportedInOrder("n1", "phase_3_independent")
PhasePause ==
    /\ Cardinality(PausedRecords("n1")) < MaxPauses
    /\ pause_onboarding("n1")
PhaseResume == resume_onboarding("n1")

NextPhases == PhaseStart \/ PhaseAdvance \/ PhasePause \/ PhaseResume

SpecPhases == Init /\ [][NextPhases]_vars

\* concurrent callers: start_onboarding for a new tenant and for a tenant
\* that exists, get_or_create_identity for addresses that differ in case
RaceBeginStart ==
    \E c \in Callers, tid \in {"n1", "t1"}, tier \in {"tier1", "tier2"} :
        BeginStart(c, tid, tier)
RaceBeginIdentity ==
    \E c \in Callers, email \in {"Bob@Other.org", "bob@other.org"} :
        BeginIdentity(c, "t0", email)
RaceCheckSession == \E c \in Callers : CheckSession(c)
RaceQueryTenant == \E c \in Callers : QueryTenant(c)
RaceInsertTenant == \E c \in Callers : InsertTenant(c)
RaceInsertSession == \E c \in Callers : InsertSession(c)
RaceFinishStart == \E c \in Callers : FinishStart(c)
RaceQueryIdentity == \E c \in Callers : QueryIdentity(c)
RaceInsertIdentity == \E c \in Callers : InsertIdentity(c)

NextRace ==
    \/ RaceBeginStart \/ RaceCheckSession \/ RaceQueryTenant \/ RaceInsertTenant
    \/ RaceInsertSession \/ RaceFinishStart
    \/ RaceBeginIdentity \/ RaceQueryIdentity \/ RaceInsertIdentity

SpecRace == Init /\ [][NextRace]_vars

\* cases of a tier0 and of a tier1 tenant, opened by requests whose
\* classification and generation fail; the clock, tier changes, SLA checks
TierChangedRecords ==
    {i \in DOMAIN auditEvents : auditEvents[i].event_type = "tier_changed"}

SlaIntake ==
    /\ Len(cases) < MaxSlaCases
    /\ IntakeStep({<<"t0", "user42">>, <<None, "ann@acme.com">>}, {"A"}, {"normal"},
                  {[ok |-> FALSE, urgency |-> "normal", compliance_flag |-> FALSE]},
                  {0}, {GenFailed}, {NoKb}, {0})
SlaUpgrade ==
    /\ Cardinality(TierChangedRecords) < MaxSlaTierChanges
    /\ \E t \in {"t0", "t1"}, new \in PlanTiers :
          upgrade_tier(t, get_tenant_tier(tenants, t), new)
SlaCheck == \E case_id \in 1..(Len(cases) + 1) : check_sla_breaches(case_id)

NextSla == SlaIntake \/ Tick \/ SlaUpgrade \/ SlaCheck

SpecSla == Init /\ [][NextSla]_vars

\* the same, with the ops center reading the cases
OpsCase == \E case_id \in 1..(Len(cases) + 1) : get_ops_case(case_id)

NextOps == SlaIntake \/ Tick \/ SlaUpgrade \/ SlaCheck \/ OpsCase

SpecOps == Init /\ [][NextOps]_vars

\* SLA tracking: the table sla_policies may hold a policy of tenant t1 that
\* differs from the defaults of its tier when the service starts
OwnPolicy ==
    [tenant_id |-> "t1", tier |-> "tier1", first_response_minutes |-> 30,
     resolution_minutes |-> 120]

InitTrack ==
    /\ tenants = SeedTenants
    /\ identities = {}
    /\ aiLogs = <<>>
    /\ cases = <<>>
    /\ caseMessages = <<>>
    /\ aiArtifacts = <<>>
    /\ slaPolicies \in {{}, {OwnPolicy}}
    /\ slaEvents = <<>>
    /\ auditEvents = <<>>
    /\ entitlements = {}
    /\ onbSessions = {}
    /\ onbSteps = {}
    /\ kbIndex = {}
    /\ kbRevisions = <<>>
    /\ kbDecisions = <<>>
    /\ kbQuality = <<>>
    /\ now = 0
    /\ nreq = 0
    /\ history = <<>>
    /\ last = [op |-> "init", kind |-> "none"]
    /\ calls = [c \in Callers |-> Idle]

TrackIntake ==
    /\ Len(cases) < MaxSlaCases
    /\ IntakeStep({<<"t0", "user42">>, <<None, "ann@acme.com">>, <<"t2", "user42">>},
                  {"A"}, {"normal"},
                  {[ok |-> FALSE, urgency |-> "normal", compliance_flag |-> FALSE]},
                  {0}, {GenFailed}, {NoKb}, {0})
TrackUpgrade ==
    /\ Cardinality(TierChangedRecords) < MaxTierChanges
    /\ \E new \in PlanTiers : upgrade_tier("t1", get_tenant_tier(tenants, "t1"), new)
TrackStart ==
    /\ Len(slaEvents) < MaxSlaEvents
    /\ \E case_id \in 1..(Len(cases) + 1) : start_sla_tracking_of_case(case_id)

NextTrack == TrackIntake \/ TrackUpgrade \/ TrackStart

SpecTrack == InitTrack /\ [][NextTrack]_vars

\* the onboarding endpoints, with strings that are and are not members of
\* the enumerations
TierInputs == {"tier1", "TIER2", "gold"}
TriggerInputs == {"supabase_registration", "Manual_Restart", "cron"}
EndpointStart ==
    \E t \in {"n1", "t1"}, tier \in TierInputs, tr \in TriggerInputs :
        start_onboarding_endpoint(t, "New", None, tier, tr)
EndpointUpgrade ==
    /\ Cardinality(TierChangedRecords) < MaxSlaTierChanges
    /\ \E t \in {"n1", "t1"}, prev \in {"tier1", "basic"},
          new \in {"tier2", "TIER0", "gold"}, tr \in {"tier_upgrade", "cron"} :
          upgrade_tier_endpoint(t, prev, new, tr)

NextEndpoints == EndpointStart \/ EndpointUpgrade

SpecEndpoints == Init /\ [][NextEndpoints]_vars

\* one case and the operations on it
StatusIntake ==
    /\ Len(cases) < 1
    /\ IntakeStep({<<None, "ann@acme.com">>}, {"A"}, {"normal"},
                  {[ok |-> FALSE, urgency |-> "normal", compliance_flag |-> FALSE]},
                  {0}, {GenFailed}, {NoKb}, {0})
StatusUpdate ==
    /\ Len(auditEvents) < MaxCaseEvents
    /\ \E case_id \in 1..2,
          status \in {None, "new", "pending_customer", "resolved", "closed", "reopened"},
          priority \in {None, "high"} : update_case(case_id, status, priority)
StatusEscalate ==
    /\ Len(auditEvents) < MaxCaseEvents
    /\ \E case_id \in 1..2 : escalate_case(case_id, "case_escalated_user")
StatusAutoEscalate ==
    /\ Len(auditEvents) < MaxCaseEvents
    /\ \E case_id \in 1..2 : escalate_case(case_id, "case_escalated_auto")
StatusMessage ==
    /\ Len(auditEvents) < MaxCaseEvents
    /\ \E case_id \in 1..2 : create_case_message(case_id, "ann@acme.com")

NextStatus ==
    StatusIntake \/ StatusUpdate \/ StatusEscalate \/ StatusAutoEscalate \/ StatusMessage

SpecStatus == Init /\ [][NextStatus]_vars

(* ------------------------------- claims -------------------------------- *)
IsIntake == last.op = "intake_request" /\ last.kind # "not_found"

\* C1: a request that takes the escalation branch creates exactly one case
\* of its tenant and answers case_created, whatever the urgency and the
\* compliance flag of the classification.
C1_EscalationCreatesCase ==
    (IsIntake /\ last.branch = "escalate") =>
        /\ last.kind = "case_created"
        /\ Len(cases) = last.cases_before + 1
        /\ cases[Len(cases)].tenant_id = last.tenant_id

\* C2: with at most two attempts the outcome is auto_resolved iff the final
\* confidence is at least 0.78, follow_up iff it is in [0.45, 0.78) and
\* escalated_to_case iff it is below 0.45.
C2_ConfidenceBoundaries ==
    (IsIntake /\ last.attempt_number <= 2) =>
        /\ (last.kind = "auto_resolved") <=> (last.confidence >= 780000)
        /\ (last.kind = "follow_up") <=>
               (last.confidence >= 450000 /\ last.confidence < 780000)
        /\ (last.kind = "case_created") <=> (last.confidence < 450000)

\* C3: every request that returns, whatever its outcome, adds exactly one
\* SupportAILog row and leaves the earlier rows in place.
C3_OneLogPerRequest ==
    [][(/\ nreq' = nreq + 1
        /\ last'.op = "intake_request"
        /\ last'.kind \in {"auto_resolved", "follow_up", "case_created", "null"})
       => (/\ Len(aiLogs') = Len(aiLogs) + 1
           /\ SubSeq(aiLogs', 1, Len(aiLogs)) = aiLogs)]_vars

\* C4: a request whose attempt number is above 2 is not auto-resolved: its
\* log has escalation_triggered set and resolved unset, and a case is created.
C4_RepeatedAttemptEscalates ==
    (IsIntake /\ last.attempt_number > 2) =>
        /\ last.branch # "auto_resolve"
        /\ last.kind = "case_created"
        /\ Len(cases) = last.cases_before + 1
        /\ Len(aiLogs) = last.logs_before + 1
        /\ aiLogs[Len(aiLogs)].escalation_triggered
        /\ ~aiLogs[Len(aiLogs)].resolved

\* C5: every request ends with one of the three outcomes, whatever the
\* collaborators answer; when classification, KB search and generation all
\* fail it goes on with confidence 0 and ends in escalated_to_case.
C5_AlwaysAnOutcome ==
    IsIntake =>
        /\ last.kind \in {"auto_resolved", "follow_up", "case_created"}
        /\ (~last.cls_ok /\ ~last.gen_ok /\ last.kb_hits = 0) =>
               (last.confidence = 0 /\ last.kind = "case_created")

\* the requests of the tenant of the last request, up to it, whose message
\* shares the 50-character prefix of its message, in the 24 hours before it
SimilarRequests ==
    {i \in DOMAIN history :
        /\ history[i].tenant_id = last.tenant_id
        /\ Prefix(MessageText[history[i].message], 50)
               = Prefix(MessageText[last.message], 50)
        /\ history[i].at >= last.at - 1}

\* C6: the k-th request of a tenant with the same message within 24 hours is
\* logged with attempt_number = k, whatever the outcomes of the earlier
\* ones; the requests of other tenants do not count.
C6_AttemptNumberCounts ==
    (IsIntake /\ Len(aiLogs) = last.logs_before + 1) =>
        aiLogs[Len(aiLogs)].attempt_number = Cardinality(SimilarRequests)

\* C7: a case created by intake_request has status escalated below 0.45 and
\* new otherwise, the higher of the requested and the AI-derived priority,
\* and tier route 2 for a tier2 tenant, a critical urgency or a compliance
\* flag, 1 otherwise.
C7_CaseFields ==
    (IsIntake /\ last.kind = "case_created") =>
        LET c == cases[last.case_id]
            rank == [p \in {"low", "normal", "high", "critical"} |->
                        IF p = "low" THEN 0 ELSE IF p = "normal" THEN 1
                        ELSE IF p = "high" THEN 2 ELSE 3]
        IN /\ c.status = IF last.confidence < 450000 THEN "escalated" ELSE "new"
           /\ c.priority \in {last.priority_requested, last.urgency}
           /\ rank[c.priority] >= rank[last.priority_requested]
           /\ rank[c.priority] >= rank[last.urgency]
           /\ c.tier_route = IF \/ last.tier = "tier2"
                                \/ last.urgency = "critical"
                                \/ last.compliance_flag
                             THEN 2 ELSE 1
           /\ c.tenant_id = last.tenant_id

\* a case with status new was created whose priority is the urgency of the
\* classification, above the requested priority
C7_Witness ==
    /\ IsIntake /\ last.kind = "case_created"
    /\ cases[last.case_id].status = "new"
    /\ last.priority_requested = "low" /\ last.urgency = "critical"
    /\ cases[last.case_id].priority = "critical"

\* C8 as stated: for every tier the decision is taken on the model
\* confidence plus 0.05 per citation and per step (three of each at most),
\* capped at 1.0.
C8_BoostForEveryTier ==
    (IsIntake /\ last.gen_ok) =>
        last.confidence =
            Min(1000000, last.base
                         + 50000 * Min(Min(last.context_docs, 6), 3)
                         + 50000 * Min(last.model_steps, 3))

\* C8 as amended: for a tier0 tenant whose generation succeeded the decision
\* is taken on the boosted confidence; for tier1 and tier2 the answer has no
\* citations and no steps and the decision is taken on the model confidence;
\* the final confidence is never below the model confidence; the request
\* with model confidence 0.5, two context documents and one step ends in
\* follow_up without a case, decided at 0.65 for tier0 and at 0.5 above.
C8_BoostedConfidence ==
    IsIntake =>
        /\ last.confidence =
              IF last.tier = "tier0" /\ last.gen_ok
              THEN Min(1000000, last.base
                                + 50000 * Min(Min(last.context_docs, 6), 3)
                                + 50000 * Min(last.model_steps, 3))
              ELSE last.base
        /\ last.confidence >= last.base
        /\ (last.base = 500000 /\ last.context_docs = 2 /\ last.model_steps = 1
            /\ last.attempt_number <= 2) =>
              /\ last.confidence = IF last.tier = "tier0" THEN 650000 ELSE 500000
              /\ last.kind = "follow_up"
              /\ Len(cases) = last.cases_before

\* a tier0 request with model confidence 0.5, two context documents and one
\* step was decided at 0.65 and ended in follow_up
C8_Witness ==
    /\ IsIntake /\ last.tier = "tier0"
    /\ last.base = 500000 /\ last.context_docs = 2 /\ last.model_steps = 1
    /\ last.confidence = 650000 /\ last.kind = "follow_up"

\* C9: a request that fails after it started writing leaves no case, no log
\* row, no message and no artifact behind.
C9_AllOrNothing ==
    (IsIntake /\ last.branch = "escalate" /\ last.kind = "error") =>
        /\ Len(cases) = last.cases_before
        /\ Len(aiLogs) = last.logs_before
        /\ \A i \in DOMAIN caseMessages : caseMessages[i].case_id <= last.cases_before
        /\ \A i \in DOMAIN aiArtifacts : aiArtifacts[i].case_id <= last.cases_before

\* the onboarding_started audit records of a tenant
StartedRecords(tid) ==
    {i \in DOMAIN auditEvents : /\ auditEvents[i].event_type = "onboarding_started"
                                /\ auditEvents[i].tenant_id = tid}

\* C10: start_onboarding for a tenant that has a session returns that session
\* and changes nothing (no step, no audit record, phase and status as they
\* were); a tenant has one onboarding_started record when it has a session
\* and none otherwise, however many start calls were made.
C10_StartIdempotent ==
    /\ [][\A i \in StartInputs :
            (start_onboarding(i[1], i[2], i[3], i[4], "supabase_registration")
             /\ SessionsOf(i[1]) # {}) =>
                /\ last'.kind = "ok"
                /\ \E x \in onbSessions : x.tenant_id = i[1] /\ x.id = last'.session_id
                /\ onbSessions' = onbSessions
                /\ onbSteps' = onbSteps
                /\ auditEvents' = auditEvents
                /\ tenants' = tenants /\ entitlements' = entitlements
                /\ slaPolicies' = slaPolicies]_vars
    /\ [](\A t \in {x.id : x \in tenants} \cup {i[1] : i \in StartInputs} :
            /\ Cardinality(SessionsOf(t)) <= 1
            /\ Cardinality(StartedRecords(t)) = Cardinality(SessionsOf(t)))

\* start_onboarding was called again for a tenant whose session had reached
\* phase 1; the session is returned and the tenant has one started record
C10_Witness ==
    /\ last.op = "start_onboarding" /\ last.kind = "ok" /\ ~last.created
    /\ \E x \in onbSessions : /\ x.tenant_id = last.tenant_id
                              /\ x.id = last.session_id
                              /\ x.current_phase = "phase_1_first_value"
    /\ Cardinality(StartedRecords(last.tenant_id)) = 1

\* the onboarding_step_completed audit records of a step of a tenant
CompletionRecords(tid, step_key) ==
    {i \in DOMAIN auditEvents : /\ auditEvents[i].event_type = "onboarding_step_completed"
                                /\ auditEvents[i].tenant_id = tid
                                /\ auditEvents[i].detail = step_key}

FollowingPhase(phase) ==
    CASE phase = "phase_0_provisioned" -> "phase_1_first_value"
      [] phase = "phase_1_first_value" -> "phase_2_core_workflows"
      [] phase = "phase_2_core_workflows" -> "phase_3_independent"
      [] phase = "phase_3_independent" -> "completed"
      [] OTHER -> phase

\* the steps of the current phase of the active session of a tenant, the
\* step with the key `step_key` left out
OtherStepsOfPhase(tid, step_key) ==
    {st \in onbSteps : /\ st.session_id = First(ActiveSessions(tid)).id
                       /\ st.phase = First(ActiveSessions(tid)).current_phase
                       /\ st.step_key # step_key}

\* the step is the last incomplete step of the current phase
LastIncompleteOfPhase(tid, step_key) ==
    /\ ActiveSessions(tid) # {}
    /\ \E st \in StepRows(First(ActiveSessions(tid)).id, step_key) :
          ~st.completed /\ st.phase = First(ActiveSessions(tid)).current_phase
    /\ \A st \in OtherStepsOfPhase(tid, step_key) : st.completed

\* the step is incomplete and no other step of the current phase is
LeavesPhaseComplete(tid, step_key) ==
    /\ ActiveSessions(tid) # {}
    /\ \E st \in StepRows(First(ActiveSessions(tid)).id, step_key) : ~st.completed
    /\ \A st \in OtherStepsOfPhase(tid, step_key) : st.completed

\* the session of the tenant moves to the following phase, whose steps exist
\* afterwards; when that phase is completed the session is completed
MovesToFollowingPhase(tid) ==
    LET before == First(ActiveSessions(tid))
        following == FollowingPhase(before.current_phase)
    IN \E x \in onbSessions' :
          /\ x.tenant_id = tid /\ x.id = before.id
          /\ x.current_phase = following
          /\ \A j \in DOMAIN ONBOARDING_STEPS(following) :
                \E st \in onbSteps' : /\ st.session_id = x.id
                                      /\ st.phase = following
                                      /\ st.step_key = ONBOARDING_STEPS(following)[j]
          /\ x.status = IF following = "completed" THEN "completed" ELSE "active"
          /\ (following = "completed") <=> (x.completed_at >= 0)

C14_ConcurrentStart ==
    /\ \A t \in {"n1", "t1"} : Cardinality(SessionsOf(t)) <= 1
    /\ \A c \in Callers :
          calls[c].op = "start_onboarding" =>
             /\ calls[c].pc # "failed"
             /\ calls[c].pc = "done" =>
                   \E x \in SessionsOf(calls[c].tenant_id) : x.id = calls[c].result

\* C15: under any interleaving of concurrent get_or_create_identity calls
\* there is at most one Identity per (tenant, lowercased email), and every
\* call that returned returned the one of its key.
C15_ConcurrentIdentity ==
    /\ \A email \in UserIds : Cardinality(IdentityRows("t0", email)) <= 1
    /\ \A c \in Callers :
          (calls[c].op = "get_or_create_identity" /\ calls[c].pc = "done") =>
             \E i \in IdentityRows(calls[c].tenant_id, calls[c].email) :
                 i.id = calls[c].result

\* the STARTED event of a case
StartedEvent(case_id) ==
    slaEvents[CHOOSE i \in DOMAIN slaEvents :
                 slaEvents[i].case_id = case_id /\ slaEvents[i].event_type = "started"]

\* the breach events of a kind logged for a case
BreachEvents(case_id, event_type) ==
    {i \in DOMAIN slaEvents : /\ slaEvents[i].case_id = case_id
                              /\ slaEvents[i].event_type = event_type}

\* C16: check_sla_breaches reports and logs a case as breached against the
\* budgets recorded in the STARTED event of the case, whatever happened to
\* the tenant's tier and policy since.
C16_BudgetsFrozenAtStart ==
    (last.op = "check_sla_breaches" /\ last.found) =>
        LET opened == cases[last.case_id].created_at
            started == StartedEvent(last.case_id)
        IN /\ last.breached_first_response
                 = ((last.at - opened) * 1440 > started.first_response_minutes)
           /\ last.breached_resolution
                 = ((last.at - opened) * 1440 > started.resolution_minutes)
           /\ \A i \in BreachEvents(last.case_id, "breached_first_response") :
                 (slaEvents[i].created_at - opened) * 1440 > started.first_response_minutes
           /\ \A i \in BreachEvents(last.case_id, "breached_resolution") :
                 (slaEvents[i].created_at - opened) * 1440 > started.resolution_minutes

\* C17: a case has at most one breached_first_response event and at most one
\* breached_resolution event, however often check_sla_breaches is called.
C17_BreachLoggedOnce ==
    \A case_id \in DOMAIN cases :
        /\ Cardinality(BreachEvents(case_id, "breached_first_response")) <= 1
        /\ Cardinality(BreachEvents(case_id, "breached_resolution")) <= 1

\* check_sla_breaches was called on a case whose two breaches were logged
\* at an earlier time: it reports both and each is logged once
C17_Witness ==
    /\ last.op = "check_sla_breaches" /\ last.found
    /\ last.breached_first_response /\ last.breached_resolution
    /\ \E i \in BreachEvents(last.case_id, "breached_first_response") :
          slaEvents[i].created_at < now
    /\ Cardinality(BreachEvents(last.case_id, "breached_first_response")) = 1
    /\ Cardinality(BreachEvents(last.case_id, "breached_resolution")) = 1

\* the place of a status in the order of the claim
StatusRank(status) ==
    CASE status = "new" -> 0
      [] status \in {"open", "pending_customer", "pending_internal"} -> 1
      [] status = "escalated" -> 2
      [] status = "resolved" -> 3
      [] status = "closed" -> 4

\* C18: the status of a case never moves backward in the order new, open or
\* pending, escalated, resolved, closed; in particular a resolved or closed
\* case keeps its status or moves on to closed, whatever operation runs.
C18_StatusMovesForward ==
    [][\A i \in DOMAIN cases :
          StatusRank(cases'[i].status) >= StatusRank(cases[i].status)]_vars

\* C19: upgrade_tier on a tenant that exists sets the tier of the tenant and
\* of its entitlement record, which names the SLA policy of the tenant and
\* the new tier, and leaves the onboarding session and its steps alone; on a
\* tenant that does not exist it fails and changes nothing.
C19_UpgradeTier ==
    [][\A t \in OnbTenants, new \in {"tier2"} :
         upgrade_tier(t, "tier1", new) =>
            IF TenantById(t) # {}
            THEN /\ last'.kind = "true"
                 /\ \A x \in tenants' : x.id = t => x.plan_tier = new
                 /\ {x.id : x \in tenants'} = {x.id : x \in tenants}
                 /\ \E e \in entitlements' : e.tenant_id = t
                 /\ \A e \in entitlements' :
                       e.tenant_id = t =>
                          /\ e.plan_tier = new
                          /\ e.sla_policy = <<t, new>>
                          /\ \E p \in slaPolicies' : p.tenant_id = t /\ p.tier = new
                 /\ \A e \in entitlements' : e.tenant_id # t => e \in entitlements
                 /\ onbSessions' = onbSessions /\ onbSteps' = onbSteps
            ELSE /\ last'.kind = "false"
                 /\ tenants' = tenants /\ entitlements' = entitlements
                 /\ slaPolicies' = slaPolicies /\ auditEvents' = auditEvents
                 /\ onbSessions' = onbSessions /\ onbSteps' = onbSteps]_vars

\* a tenant onboarded with tier1 whose session had reached phase 1 was
\* upgraded: tenant and entitlement carry tier2, the session is in phase 1
C19_Witness ==
    /\ last.op = "upgrade_tier" /\ last.kind = "true" /\ last.tenant_id = "n1"
    /\ \E x \in TenantById("n1") : x.plan_tier = "tier2"
    /\ \E e \in entitlements : /\ e.tenant_id = "n1" /\ e.plan_tier = "tier2"
                               /\ e.sla_policy = <<"n1", "tier2">>
    /\ \E p \in slaPolicies : p.tenant_id = "n1" /\ p.tier = "tier1"
    /\ \E x \in SessionsOf("n1") : x.current_phase = "phase_1_first_value"

\* str.lower() on the domains tenants are registered with
RegisteredDomains == {"acme.com", "big.io", "Other.org"}
LowerDomain == [d \in RegisteredDomains |->
    CASE d = "acme.com" -> "acme.com"
      [] d = "big.io" -> "big.io"
      [] d = "Other.org" -> "other.org"]

\* the tenants whose registered domain equals the domain of the address,
\* letter case aside
SameDomainTenants(u) ==
    {t \in tenants : /\ t.primary_domain # None
                     /\ DomainOf[u] # None
                     /\ LowerDomain[t.primary_domain] = DomainOf[u]}

\* C20: a request without tenant_id is served for the tenant whose registered
\* primary_domain equals the domain of the sender's address, letter case of
\* either side aside, never for a tenant whose domain is only a suffix of it;
\* without such a tenant it is served for the Prospect tenant, which has
\* tier0 and no domain.
C20_ResolveByDomain ==
    [][\A u \in ResolveUsers, msg \in {"A", "D"} :
         intake_request(None, u, msg, "normal",
                        [ok |-> FALSE, urgency |-> "normal", compliance_flag |-> FALSE],
                        0, GenFailed, {NoKb}, {0}) =>
            IF SameDomainTenants(u) # {}
            THEN last'.tenant_id \in {t.id : t \in SameDomainTenants(u)}
            ELSE \E t \in tenants' : /\ t.id = last'.tenant_id
                                     /\ t.name = "Prospect"
                                     /\ t.plan_tier = "tier0"
                                     /\ t.primary_domain = None]_vars

\* C21: after any calls of get_or_create_prospect_tenant and any requests
\* from unknown domains there is one tenant named Prospect, it has tier0 and
\* no domain, and every call returns it.
C21_OneProspect ==
    /\ [](/\ Cardinality(ProspectTenants) <= 1
          /\ \A t \in ProspectTenants :
                t.plan_tier = "tier0" /\ t.primary_domain = None
          /\ last.op = "get_or_create_prospect_tenant" =>
                {t.id : t \in ProspectTenants} = {last.tenant_id})
    /\ [][\A u \in ResolveUsers, msg \in {"A", "D"} :
            (/\ resolve_tenant_by_domain(u) = {}
             /\ intake_request(None, u, msg, "normal",
                    [ok |-> FALSE, urgency |-> "normal", compliance_flag |-> FALSE],
                    0, GenFailed, {NoKb}, {0})) =>
               /\ {t.id : t \in ProspectTenants'} = {last'.tenant_id}
               /\ ProspectTenants # {} => ProspectTenants' = ProspectTenants]_vars

\* a call after a request from an unknown domain returned the tenant that
\* request had created
C21_Witness ==
    /\ last.op = "get_or_create_prospect_tenant"
    /\ Len(history) = 1 /\ history[1].tenant_id = last.tenant_id
    /\ Cardinality(ProspectTenants) = 1

\* the budgets the contract gives: the tenant's own policy for its current
\* tier when it has one, the defaults of the tier otherwise
ContractBudgets(tid, tier) ==
    IF \E p \in slaPolicies : p.tenant_id = tid /\ p.tier = tier
    THEN {<<p.first_response_minutes, p.resolution_minutes>> :
             p \in {q \in slaPolicies : q.tenant_id = tid /\ q.tier = tier}}
    ELSE {CASE tier = "tier0" -> <<1440, 4320>>
            [] tier = "tier1" -> <<240, 1440>>
            [] tier = "tier2" -> <<60, 480>>}

\* C22: start_sla_tracking on a case that exists appends one STARTED event
\* with the budgets of the tenant's own policy for its current tier, or the
\* defaults of the tier when it has none; on an unknown case it appends
\* nothing.
C22_StartedBudgets ==
    [][\A case_id \in 1..(MaxSlaCases + 2) :
         start_sla_tracking_of_case(case_id) =>
            IF case_id \in DOMAIN cases
            THEN /\ Len(slaEvents') = Len(slaEvents) + 1
                 /\ SubSeq(slaEvents', 1, Len(slaEvents)) = slaEvents
                 /\ LET e == slaEvents'[Len(slaEvents')]
                        tid == cases[case_id].tenant_id
                    IN /\ e.case_id = case_id /\ e.event_type = "started"
                       /\ <<e.first_response_minutes, e.resolution_minutes>> \in
                             ContractBudgets(tid, get_tenant_tier(tenants, tid))
            ELSE slaEvents' = slaEvents]_vars

\* tracking was started again for a case of t1, which has its own policy for
\* tier1: the event carries the budgets of that policy
C22_Witness ==
    /\ last.op = "start_sla_tracking" /\ last.found
    /\ cases[last.case_id].tenant_id = "t1"
    /\ get_tenant_tier(tenants, "t1") = "tier1"
    /\ OwnPolicy \in slaPolicies
    /\ slaEvents[Len(slaEvents)].first_response_minutes = 30
    /\ slaEvents[Len(slaEvents)].resolution_minutes = 120

\* the STARTED events of a case
StartedEvents(case_id) ==
    {i \in DOMAIN slaEvents : /\ slaEvents[i].case_id = case_id
                              /\ slaEvents[i].event_type = "started"}

\* C23: every case the resolution pipeline created has one STARTED SLA event;
\* SLA events and case messages exist only for cases, so a request that
\* creates no case adds neither.
C23_CaseHasOneStarted ==
    /\ \A c \in DOMAIN cases : Cardinality(StartedEvents(c)) = 1
    /\ Len(slaEvents) = Len(cases)
    /\ \A i \in DOMAIN slaEvents : slaEvents[i].case_id \in DOMAIN cases
    /\ \A i \in DOMAIN caseMessages : caseMessages[i].case_id \in DOMAIN cases
    /\ Len(caseMessages) <= Len(cases)

\* a candidate title shares at least n hundredths of its words with the
\* issue title (word-set Jaccard, compared without rounding)
JaccardAtLeast(a, b, n) ==
    /\ a # <<>> /\ b # <<>>
    /\ 100 * Cardinality(Words(a) \cap Words(b)) >=
          n * Cardinality(Words(a) \cup Words(b))

\* C24: the decision is skip below confidence 0.75 whatever the candidates;
\* otherwise create without candidate, update when the best candidate's
\* similarity is at least 0.60 and create when it is below.
C24_Decision ==
    last.op = "decide_update_or_create" =>
        last.decision =
            IF last.confidence < 750000 THEN "skip"
            ELSE IF last.titles = <<>> THEN "create"
            ELSE IF \E i \in DOMAIN last.titles :
                       JaccardAtLeast(last.issue_title, last.titles[i], 60)
                 THEN "update"
            ELSE "create"

\* 'VPN connection timeout' against 'VPN connection timeout issue' (3 of 4
\* words) at confidence 0.8 is decided as update
C24_Witness ==
    /\ last.op = "decide_update_or_create"
    /\ last.issue_title = <<"vpn", "connection", "timeout">>
    /\ last.titles = <<<<"printer", "offline">>, <<"vpn", "connection", "timeout", "issue">>>>
    /\ last.confidence = 800000
    /\ last.decision = "update"

\* the revision numbers of a document in the order they were written
RECURSIVE NumbersInOrder(_, _)
NumbersInOrder(revisions, doc) ==
    IF revisions = <<>> THEN <<>>
    ELSE IF Head(revisions).outline_document_id = doc
         THEN <<Head(revisions).revision_number>> \o NumbersInOrder(Tail(revisions), doc)
         ELSE NumbersInOrder(Tail(revisions), doc)

\* C25: the revisions of every document are numbered 1..N in the order they
\* were written; create_article writes revision 1, update_article of an
\* indexed document appends one revision numbered one more than the highest,
\* and no call alters a revision written before.
C25_RevisionNumbers ==
    /\ [](\A d \in IndexedDocs :
            LET nums == NumbersInOrder(kbRevisions, d)
            IN Len(nums) >= 1 /\ \A i \in DOMAIN nums : nums[i] = i)
    /\ [][/\ Len(kbRevisions') >= Len(kbRevisions)
          /\ SubSeq(kbRevisions', 1, Len(kbRevisions)) = kbRevisions
          /\ create_article(TRUE) =>
                /\ Len(kbRevisions') = Len(kbRevisions) + 1
                /\ kbRevisions'[Len(kbRevisions')].revision_number = 1
                /\ kbRevisions'[Len(kbRevisions')].outline_document_id \notin IndexedDocs
          /\ \A d \in {"d1", "d2", "d3", "ext"} :
                update_article(d) =>
                   IF d \in IndexedDocs
                   THEN /\ Len(kbRevisions') = Len(kbRevisions) + 1
                        /\ kbRevisions'[Len(kbRevisions')].outline_document_id = d
                        /\ kbRevisions'[Len(kbRevisions')].revision_number =
                              Len(NumbersInOrder(kbRevisions, d)) + 1
                   ELSE kbRevisions' = kbRevisions]_vars

\* two documents, the first updated before and after the second was created
C25_Witness ==
    /\ last.op = "update_article" /\ last.kind = "true" /\ last.document_id = "d1"
    /\ NumbersInOrder(kbRevisions, "d1") = <<1, 2, 3>>
    /\ NumbersInOrder(kbRevisions, "d2") = <<1, 2>>
    /\ kbRevisions[3].outline_document_id = "d2"

\* the KB workflow of the last request decided to create or to update and
\* left no document behind: Outline did not create it, or the candidate is
\* not in the index
KbWorkflowFailed ==
    /\ IsIntake /\ last.branch = "auto_resolve"
    /\ Len(kbDecisions) > 0
    /\ kbDecisions[Len(kbDecisions)].decision \in {"create", "update"}
    /\ aiLogs[Len(aiLogs)].kb_document_id = None

\* C26: when the KB workflow fails after an auto-resolve decision the
\* request still ends as auto_resolved, its log row is stored with
\* resolved = true and without document, and no case is created.
C26_KbFailureNotFatal ==
    KbWorkflowFailed =>
        /\ last.kind = "auto_resolved"
        /\ Len(aiLogs) = last.logs_before + 1
        /\ aiLogs[Len(aiLogs)].resolved
        /\ Len(cases) = last.cases_before

\* the logs the contract selects: resolved, not used, confident enough,
\* helpful or unrated with confidence of at least 0.85, and, with a document,
\* a latest reviewed score of the document of at least the threshold
ContractBatch(min_confidence, min_quality_score) ==
    {i \in DOMAIN aiLogs :
        /\ aiLogs[i].resolved
        /\ ~aiLogs[i].used_in_training
        /\ aiLogs[i].confidence >= min_confidence
        /\ \/ aiLogs[i].helpful = "true"
           \/ aiLogs[i].helpful = "none" /\ aiLogs[i].confidence >= 850000
        /\ aiLogs[i].kb_document_id # None =>
              \E q \in DOMAIN kbQuality :
                 /\ kbQuality[q].outline_document_id = aiLogs[i].kb_document_id
                 /\ ~kbQuality[q].needs_review /\ kbQuality[q].reviewed
                 /\ \A r \in DOMAIN kbQuality :
                       (/\ kbQuality[r].outline_document_id = aiLogs[i].kb_document_id
                        /\ ~kbQuality[r].needs_review /\ kbQuality[r].reviewed) => r <= q
                 /\ kbQuality[q].overall_score >= min_quality_score}

\* C27: build_training_batch with a limit that covers the table returns
\* exactly the logs the contract selects.
C27_BatchSelection ==
    (last.op = "build_training_batch" /\ last.limit >= Len(aiLogs)) =>
        /\ last.kind = "ok"
        /\ {last.ids[i] : i \in DOMAIN last.ids}
              = ContractBatch(last.min_confidence, last.min_quality_score)

TableKeys(phase) == {ONBOARDING_STEPS(phase)[i] : i \in DOMAIN ONBOARDING_STEPS(phase)}

\* C29: a session holds at most one step per step_key; the steps it holds
\* for the phase it is in are the keys of the fixed table for that phase,
\* also when the phase is entered again after pause and resume; steps are
\* never removed and a completed step stays completed.
C29_StepsOfPhase ==
    /\ [](\A x \in onbSessions :
            /\ \A st, su \in onbSteps :
                  (/\ st.session_id = x.id /\ su.session_id = x.id
                   /\ st.step_key = su.step_key) => st = su
            /\ x.status = "active" =>
                  {st.step_key : st \in {su \in onbSteps : /\ su.session_id = x.id
                                                           /\ su.phase = x.current_phase}}
                     = TableKeys(x.current_phase)
            /\ \A st \in onbSteps :
                  st.session_id = x.id => st.step_key \in TableKeys(st.phase))
    /\ [][\A st \in onbSteps :
            \E su \in onbSteps' :
               /\ su.session_id = st.session_id /\ su.step_key = st.step_key
               /\ su.phase = st.phase
               /\ st.completed => su.completed]_vars

\* phase 1 was entered again after a pause, through the first completion of
\* one of its steps, and the step completed before the pause is as it was
C29_Witness ==
    /\ PausedRecords("n1") # {}
    /\ last.op = "advance_step" /\ last.kind = "true"
    /\ last.step_key = "first_ai_question"
    /\ last.phase_before = "phase_0_provisioned"
    /\ \E x \in SessionsOf("n1") :
          /\ x.current_phase = "phase_1_first_value"
          /\ \E st \in onbSteps : /\ st.session_id = x.id
                                  /\ st.step_key = "portal_login" /\ st.completed

\* the request strings that name no plan tier and no trigger source
Unrecognized == {"gold", "basic", "cron"}

\* tenants, sessions, steps, SLA policies, entitlements and audit records
\* are as they were
NothingMutated ==
    /\ tenants' = tenants /\ onbSessions' = onbSessions /\ onbSteps' = onbSteps
    /\ slaPolicies' = slaPolicies /\ entitlements' = entitlements
    /\ auditEvents' = auditEvents

\* C30: a start or upgrade request with a plan tier or trigger source that
\* is not a recognized value is rejected with a client error and changes
\* nothing.
C30_InvalidEnumRejected ==
    [][/\ \A t \in {"n1", "t1"}, tier \in TierInputs, tr \in TriggerInputs :
            (/\ start_onboarding_endpoint(t, "New", None, tier, tr)
             /\ {tier, tr} \cap Unrecognized # {}) =>
                (last'.kind = "400" /\ NothingMutated)
       /\ \A t \in {"n1", "t1"}, prev \in {"tier1", "basic"},
             new \in {"tier2", "TIER0", "gold"}, tr \in {"tier_upgrade", "cron"} :
            (/\ upgrade_tier_endpoint(t, prev, new, tr)
             /\ {prev, new, tr} \cap Unrecognized # {}) =>
                (last'.kind = "400" /\ NothingMutated)]_vars

\* an upgrade of a tenant that has a session was rejected for its tier
C30_Witness ==
    /\ last.op = "upgrade_tier_endpoint" /\ last.kind = "400"
    /\ last.tenant_id = "n1"
    /\ SessionsOf("n1") # {}
    /\ \E e \in entitlements : e.tenant_id = "n1" /\ e.plan_tier = "tier2"
    /\ TierChangedRecords = {}

\* C31: the remaining-time percentage reported for a case whose resolution
\* budget is B (the budget of its STARTED event) and whose age is E minutes
\* is max(0, (B - E) / B * 100): 0 whenever E >= B, strictly between 0 and
\* 100 whenever 0 < E < B, for every case.
C31_RemainingPercentage ==
    (last.op = "get_ops_case" /\ last.kind = "ok") =>
        LET B == StartedEvent(last.case_id).resolution_minutes
            E == last.age_minutes
            r == last.sla_remaining
        IN /\ E >= B => r = 0
           /\ (0 < E /\ E < B) =>
                 /\ 0 < r /\ r < 100000
                 /\ B * r <= (B - E) * 100000
                 /\ (B - E) * 100000 < B * (r + 1)

\* C32: a request with attempt_number above 2 (so should_escalate is true)
\* whose confidence lies in [0.45, 0.78) ends in escalated_to_case: a case
\* with status new is created and its log has escalation_triggered set; it
\* does not end in follow_up.
C32_RepeatedMidConfidenceEscalates ==
    (/\ IsIntake
     /\ last.attempt_number > 2
     /\ should_escalate(last.confidence, last.attempt_number, FALSE)
     /\ last.confidence >= FollowUpMin /\ last.confidence < AutoResolveMin) =>
        /\ last.kind # "follow_up"
        /\ last.kind = "case_created"
        /\ Len(cases) = last.cases_before + 1
        /\ cases[Len(cases)].status = "new"
        /\ Len(aiLogs) = last.logs_before + 1
        /\ aiLogs[Len(aiLogs)].escalation_triggered

\* C33: once an onboarding session has status completed, no start,
\* advance_step, pause, resume or upgrade_tier call changes its status or
\* its phase: a completed session is never paused and resumed back into
\* phase_0_provisioned.
C33_CompletedIsFinal ==
    [][\A x \in onbSessions :
          x.status = "completed" =>
              \E y \in onbSessions' : /\ y.tenant_id = x.tenant_id
                                      /\ y.status = x.status
                                      /\ y.current_phase = x.current_phase]_vars

\* the steps a session holds, and those of its current phase
StepsOfSession(x) == {st \in onbSteps : st.session_id = x.id}
StepsOfCurrentPhase(x) == {st \in StepsOfSession(x) : st.phase = x.current_phase}

\* C34: between operations the current phase of an active session has at
\* least one incomplete step, also after a pause followed by a resume; so no
\* active session has all the steps it holds completed (it would be stuck in
\* an intermediate phase instead of ending with status completed).
C34_ActivePhaseHasOpenStep ==
    \A x \in onbSessions :
        x.status = "active" =>
            /\ \E st \in StepsOfCurrentPhase(x) : ~st.completed
            /\ \E st \in StepsOfSession(x) : ~st.completed

\* C35: between operations the status and the phase of a session agree:
\* status paused iff phase paused, status completed iff phase completed, and
\* an active session is in one of the four working phases.
C35_StatusAndPhaseAgree ==
    \A x \in onbSessions :
        /\ (x.status = "paused") <=> (x.current_phase = "paused")
        /\ (x.status = "completed") <=> (x.current_phase = "completed")
        /\ x.status = "active" =>
              x.current_phase \in {"phase_0_provisioned", "phase_1_first_value",
                                   "phase_2_core_workflows", "phase_3_independent"}

\* a session that was paused and resumed has been taken through its last
\* phase by advance_step and is completed
C35_Witness ==
    /\ last.op = "advance_step" /\ last.kind = "true"
    /\ last.phase_before = "phase_3_independent"
    /\ PausedRecords("n1") # {}
    /\ \E x \in SessionsOf("n1") : x.status = "completed" /\ x.current_phase = "completed"

\* C37: after any sequence of start_onboarding and upgrade_tier calls, also
\* a start_onboarding for a tenant that existed with another tier, the
\* entitlement of a tenant carries the plan tier of the tenant and
\* references the SLA policy of (tenant, that tier).
C37_EntitlementFollowsTenant ==
    \A e \in entitlements :
        \A t \in TenantById(e.tenant_id) :
            /\ e.plan_tier = t.plan_tier
            /\ e.sla_policy = <<t.id, t.plan_tier>>
            /\ get_sla_policy(t.id, t.plan_tier) # {}

\* the flags of a log row that are set
FlagsSet(log) ==
    {f \in {"resolved", "follow_up_flag", "escalation_triggered"} : log[f]}

\* C36: every persisted SupportAILog has exactly one of resolved,
\* follow_up_flag and escalation_triggered set, the one of the outcome of its
\* request, whatever the model reported as needs_clarification; its case_id
\* is set iff escalation_triggered is set.
C36_OneFlagPerLog ==
    /\ \A i \in DOMAIN aiLogs :
          /\ Cardinality(FlagsSet(aiLogs[i])) = 1
          /\ (aiLogs[i].case_id # NoId) <=> aiLogs[i].escalation_triggered
    /\ (IsIntake /\ Len(aiLogs) = last.logs_before + 1) =>
          FlagsSet(aiLogs[Len(aiLogs)]) =
             CASE last.branch = "auto_resolve" -> {"resolved"}
               [] last.branch = "follow_up" -> {"follow_up_flag"}
               [] OTHER -> {"escalation_triggered"}

\* the tenant has no active session, or its active session does not hold
\* the step key
NoActiveSessionWithStep(tid, step_key) ==
    \A x \in onbSessions :
        (x.tenant_id = tid /\ x.status = "active") =>
            ~\E st \in onbSteps : st.session_id = x.id /\ st.step_key = step_key

\* C38: advance_step for a tenant that has no active session (none, a
\* paused one or a completed one), or with a step key the session does not
\* hold, reports failure (not-found) and changes no step, phase, status or
\* audit record.
C38_AdvanceNotFound ==
    [][(/\ last'.op = "advance_step"
        /\ last' # last
        /\ NoActiveSessionWithStep(last'.tenant_id, last'.step_key)) =>
            /\ last'.kind = "false"
            /\ onbSteps' = onbSteps
            /\ onbSessions' = onbSessions
            /\ auditEvents' = auditEvents]_vars

\* advance_step was refused on a paused session for a step the session
\* holds and has not completed
C38_Witness ==
    /\ last.op = "advance_step" /\ last.kind = "false"
    /\ last.status_before = "paused"
    /\ \E x \in SessionsOf(last.tenant_id) :
          \E st \in onbSteps : /\ st.session_id = x.id
                               /\ st.step_key = last.step_key
                               /\ ~st.completed

\* C39: create_article whose external document creation fails, and
\* update_article on a document id that is not in the article index, return
\* a failure result and write no index entry and no revision; create_article
\* always asks for a draft, never for a published document.
C39_KbFailuresWriteNothing ==
    [][/\ (last'.op = "create_article" /\ last' # last) =>
              /\ ~last'.publish
              /\ ~last'.kb_created =>
                    /\ last'.kind = "false"
                    /\ kbIndex' = kbIndex /\ kbRevisions' = kbRevisions
       /\ (/\ last'.op = "update_article" /\ last' # last
           /\ ~\E a \in kbIndex : a.outline_document_id = last'.document_id) =>
              /\ last'.kind = "false"
              /\ kbIndex' = kbIndex /\ kbRevisions' = kbRevisions]_vars

\* update_article was refused for a document that is not in the index while
\* other documents are indexed and have revisions
C39_Witness ==
    /\ last.op = "update_article" /\ last.kind = "false"
    /\ ~\E a \in kbIndex : a.outline_document_id = last.document_id
    /\ kbIndex # {} /\ Len(kbRevisions) >= 2
    /\ \A i \in DOMAIN kbRevisions : kbRevisions[i].outline_document_id # last.document_id

====
